---- MODULE Spec2Model ----
(***************************************************************************)
(* Model of the data-access layer of the airline dashboard:                *)
(* db2_connector.DB2Connector, its live queries, its hardcoded sample      *)
(* tables and its degraded-mode flag use_mock.                             *)
(*                                                                         *)
(* A table (pd.DataFrame) is a record                                      *)
(*     [columns |-> sequence of column names,                              *)
(*      data    |-> function: column name -> sequence of cell values].     *)
(* Decimal literals of the source are kept as integers where the fraction  *)
(* is zero (15750000.00 -> 15750000) and scaled by ten otherwise           *)
(* (avg_age 42.5 -> 425).                                                  *)
(***************************************************************************)
EXTENDS Integers, Sequences, FiniteSets, TLC

VARIABLES
    self,       \* the DB2Connector instance: its fields
    rng,        \* state of numpy's shared global random generator
    now,        \* the clock read by datetime.now()
    handles,    \* number of connection handles the driver has handed out
    ret,        \* observation of the last call: what it returned and did
    hist,       \* history: what has happened to the instance so far
    watch,      \* one remembered fallback result, to compare later calls with
    tool,       \* the SQLAlchemy connector of src/connector.py and its files
    dash,       \* the dashboard: the page being rendered and what it showed
    local       \* the LocalConnector of dashboard.py: what its last call did

vars == <<self, rng, now, handles, ret, hist, watch, tool, dash, local>>

----------------------------------------------------------------------------
(* Bounds of the model *)

\* the shared generator has RngMod states
RngMod == 16
\* the generator's state when the program starts is one of 0..MaxEntropy
MaxEntropy == 1
\* the clock runs from 0 to MaxClock
MaxClock == 1
\* the driver hands out at most MaxHandles connection handles
MaxHandles == 2
\* a successful live query returns 0..MaxLiveRows rows
MaxLiveRows == 1
\* the table the SQLAlchemy connector reads holds 0..MaxTableRows rows
MaxTableRows == 3
\* read_table is called with limit None or 0..MaxLimit
MaxLimit == 2
\* the exports are called with chunksize None or 0..MaxChunk
MaxChunk == 2

----------------------------------------------------------------------------
(* Values *)

None == "None"

\* self.connection = None: no handle; the driver's handles are 1, 2, ...
NoConnection == 0

\* nothing remembered yet
NoWatch == [op |-> None, table |-> [columns |-> <<>>, data |-> <<>>]]

\* pd.DataFrame(): no columns, no rows
EmptyFrame == [columns |-> <<>>, data |-> <<>>]

Range(s) == {s[i] : i \in DOMAIN s}

\* range(lo, hi) of Python as a sequence
PyRange(lo, hi) == [i \in 1..(hi - lo) |-> lo + i - 1]

\* number of rows of a table
NRows(t) == IF Len(t.columns) = 0 THEN 0 ELSE Len(t.data[t.columns[1]])

\* pd.DataFrame(dict): raises ValueError unless all columns have one length
DataFrame(columns, data) ==
    IF \A i, j \in DOMAIN columns : Len(data[columns[i]]) = Len(data[columns[j]])
    THEN [raised |-> FALSE, table |-> [columns |-> columns, data |-> data]]
    ELSE [raised |-> TRUE, table |-> EmptyFrame]

----------------------------------------------------------------------------
(* numpy's global generator: np.random.seed resets the shared state, every  *)
(* drawn number advances it, a drawn number is a function of the state.     *)

NpSeed(seed) == seed % RngMod

\* the k-th number (k >= 1) drawn starting in state s
NpDraw(s, k) == (((s + k - 1) % RngMod) * 5 + 3) % RngMod

\* the state after n numbers have been drawn starting in state s
NpAdvance(s, n) == (s + n) % RngMod

\* np.random.choice(options, n) drawn starting in state s
RandChoice(s, options, n) ==
    [i \in 1..n |-> options[(NpDraw(s, i) % Len(options)) + 1]]

\* np.random.randint(lo, hi, n) drawn starting in state s
RandInt(s, lo, hi, n) == [i \in 1..n |-> lo + (NpDraw(s, i) % (hi - lo))]

\* np.random.uniform(lo, hi, n) drawn starting in state s, to whole numbers
RandUniform(s, lo, hi, n) == [i \in 1..n |-> lo + (NpDraw(s, i) % (hi - lo))]

----------------------------------------------------------------------------
(* The hardcoded sample tables.  Each operator gives, for the generator     *)
(* state r and the clock reading t at the call, whether building the table  *)
(* raised, the table, and the generator state it leaves behind.             *)

Built(frame, r) == [raised |-> frame.raised, table |-> frame.table, rng |-> r]

\* a sample total with a digit dropped
_get_mock_total_revenue_Typo(r, t) ==
    Built(DataFrame(<<"total_revenue">>, [total_revenue |-> <<1575000>>]), r)

_get_mock_total_revenue(r, t) ==
    Built(DataFrame(<<"total_revenue">>, [total_revenue |-> <<15750000>>]), r)

\* a sample table with one ticket_count entry missing
_get_mock_revenue_by_route_Short(r, t) ==
    Built(DataFrame(
        <<"ROUTE_ID", "origin", "destination", "total_revenue", "ticket_count",
          "avg_ticket_price">>,
        [ROUTE_ID |-> <<1, 2, 3, 4, 5, 6, 7, 8, 9, 10>>,
         origin |-> <<"JFK", "LAX", "ORD", "DFW", "ATL", "DEN", "SFO", "MIA", "BOS", "LAS">>,
         destination |-> <<"LAX", "JFK", "MIA", "LAX", "JFK", "LAX", "LAX", "NYC", "LAX", "LAS">>,
         total_revenue |-> <<2500000, 2200000, 1800000, 1650000, 1500000, 1400000,
                             1300000, 1200000, 1100000, 1000000>>,
         ticket_count |-> <<5000, 4400, 3600, 3300, 3000, 2800, 2600, 2400, 2200>>,
         avg_ticket_price |-> <<500, 500, 500, 500, 500, 500, 500, 500, 500, 500>>]), r)

_get_mock_revenue_by_route(r, t) ==
    Built(DataFrame(
        <<"ROUTE_ID", "origin", "destination", "total_revenue", "ticket_count",
          "avg_ticket_price">>,
        [ROUTE_ID |-> <<1, 2, 3, 4, 5, 6, 7, 8, 9, 10>>,
         origin |-> <<"JFK", "LAX", "ORD", "DFW", "ATL", "DEN", "SFO", "MIA", "BOS", "LAS">>,
         destination |-> <<"LAX", "JFK", "MIA", "LAX", "JFK", "LAX", "LAX", "NYC", "LAX", "LAS">>,
         total_revenue |-> <<2500000, 2200000, 1800000, 1650000, 1500000, 1400000,
                             1300000, 1200000, 1100000, 1000000>>,
         ticket_count |-> <<5000, 4400, 3600, 3300, 3000, 2800, 2600, 2400, 2200, 2000>>,
         avg_ticket_price |-> <<500, 500, 500, 500, 500, 500, 500, 500, 500, 500>>]), r)

flights == 200

\* np.random.seed(42) makes the drawn columns independent of the generator
\* state at the call: the seeded frame is one fixed value
SeededLoadFactor ==
    LET s0 == NpSeed(42)
    IN  DataFrame(
            <<"FLIGHT_ID", "origin", "destination", "CAPACITY", "passengers_booked",
              "load_factor">>,
            [FLIGHT_ID |-> PyRange(1, flights + 1),
             origin |-> RandChoice(s0, <<"JFK", "LAX", "ORD", "DFW", "ATL">>, flights),
             destination |-> RandChoice(NpAdvance(s0, flights),
                                        <<"LAX", "JFK", "MIA", "ORD", "DEN">>, flights),
             CAPACITY |-> RandChoice(NpAdvance(s0, 2 * flights),
                                     <<150, 180, 200, 250>>, flights),
             passengers_booked |-> RandInt(NpAdvance(s0, 3 * flights), 100, 250, flights),
             load_factor |-> RandUniform(NpAdvance(s0, 4 * flights), 65, 95, flights)])

_get_mock_load_factor(r, t) ==
    Built(SeededLoadFactor, NpAdvance(NpSeed(42), 5 * flights))

SeededFleetUtilization ==
    LET s0 == NpSeed(42)
    IN  DataFrame(
            <<"AIRPLANE_ID", "MODEL", "REGISTRATION_NUMBER", "TOTAL_FLIGHT_DISTANCE",
              "FLIGHT_HOURS", "FUEL_GALLONS_HOUR", "total_flights",
              "MAINTENANCE_LAST_ACHECK", "MAINTENANCE_TAKEOFFS">>,
            [AIRPLANE_ID |-> PyRange(1, 31),
             MODEL |-> RandChoice(s0, <<"Boeing 747", "Boeing 787", "Airbus A380",
                                        "Airbus A350">>, 30),
             REGISTRATION_NUMBER |-> [i \in 1..30 |-> "N" \o ToString(1000 + (i - 1))],
             TOTAL_FLIGHT_DISTANCE |-> RandInt(NpAdvance(s0, 30), 100000, 500000, 30),
             FLIGHT_HOURS |-> RandInt(NpAdvance(s0, 60), 1000, 5000, 30),
             FUEL_GALLONS_HOUR |-> RandUniform(NpAdvance(s0, 90), 4000, 8000, 30),
             total_flights |-> RandInt(NpAdvance(s0, 120), 50, 300, 30),
             MAINTENANCE_LAST_ACHECK |-> RandInt(NpAdvance(s0, 150), 0, 1000, 30),
             MAINTENANCE_TAKEOFFS |-> RandInt(NpAdvance(s0, 180), 300, 950, 30)])

_get_mock_fleet_utilization(r, t) ==
    Built(SeededFleetUtilization, NpAdvance(NpSeed(42), 210))

_get_mock_fuel_efficiency(r, t) ==
    Built(DataFrame(
        <<"MODEL", "aircraft_count", "avg_fuel_consumption", "avg_distance",
          "avg_flight_hours">>,
        [MODEL |-> <<"Boeing 787", "Airbus A350", "Boeing 747", "Airbus A380">>,
         aircraft_count |-> <<12, 8, 10, 5>>,
         avg_fuel_consumption |-> <<5100, 5300, 6500, 7000>>,
         avg_distance |-> <<450000, 420000, 380000, 400000>>,
         avg_flight_hours |-> <<4200, 3800, 3500, 3700>>]), r)

_get_mock_maintenance_alerts(r, t) ==
    Built(DataFrame(
        <<"AIRPLANE_ID", "MODEL", "REGISTRATION_NUMBER", "MAINTENANCE_TAKEOFFS",
          "maintenance_status">>,
        [AIRPLANE_ID |-> <<1, 5, 8, 12, 15, 18>>,
         MODEL |-> <<"Boeing 747", "Airbus A380", "Boeing 787", "Airbus A350",
                     "Boeing 747", "Airbus A380">>,
         REGISTRATION_NUMBER |-> <<"N1001", "N1005", "N1008", "N1012", "N1015", "N1018">>,
         MAINTENANCE_TAKEOFFS |-> <<950, 900, 850, 800, 750, 700>>,
         maintenance_status |-> <<"CRITICAL", "CRITICAL", "HIGH", "HIGH", "MEDIUM",
                                  "MEDIUM">>]), r)

_get_mock_passenger_demographics(r, t) ==
    Built(DataFrame(
        <<"GENDER", "passenger_count", "avg_age", "min_age", "max_age">>,
        [GENDER |-> <<"M", "F">>,
         passenger_count |-> <<52000, 48000>>,
         avg_age |-> <<425, 382>>,
         min_age |-> <<18, 18>>,
         max_age |-> <<82, 85>>]), r)

_get_mock_hr_metrics(r, t) ==
    Built(DataFrame(
        <<"DEPARTMENT_ID", "DEPARTMENT_NAME", "headcount", "total_salary", "avg_salary">>,
        [DEPARTMENT_ID |-> <<1, 2, 3, 4>>,
         DEPARTMENT_NAME |-> <<"Flight Operations", "Maintenance", "Customer Service",
                               "Administration">>,
         headcount |-> <<350, 450, 280, 120>>,
         total_salary |-> <<12600000, 13500000, 7840000, 4200000>>,
         avg_salary |-> <<36000, 30000, 28000, 35000>>]), r)

SeededRouteNetwork ==
    LET s0 == NpSeed(42)
    IN  DataFrame(
            <<"ROUTE_ID", "origin_id", "origin", "origin_lat", "origin_lon",
              "destination_id", "destination", "destination_lat", "destination_lon",
              "flight_count", "passenger_count">>,
            [ROUTE_ID |-> PyRange(1, 21),
             origin_id |-> PyRange(1, 21),
             origin |-> RandChoice(s0, <<"JFK", "LAX", "ORD", "DFW", "ATL">>, 20),
             origin_lat |-> RandUniform(NpAdvance(s0, 20), 25, 45, 20),
             origin_lon |-> RandUniform(NpAdvance(s0, 40), -125, -70, 20),
             destination_id |-> PyRange(21, 41),
             destination |-> RandChoice(NpAdvance(s0, 60),
                                        <<"LAX", "JFK", "MIA", "ORD", "DEN">>, 20),
             destination_lat |-> RandUniform(NpAdvance(s0, 80), 25, 45, 20),
             destination_lon |-> RandUniform(NpAdvance(s0, 100), -125, -70, 20),
             flight_count |-> RandInt(NpAdvance(s0, 120), 50, 300, 20),
             passenger_count |-> RandInt(NpAdvance(s0, 140), 5000, 50000, 20)])

_get_mock_route_network(r, t) ==
    Built(SeededRouteNetwork, NpAdvance(NpSeed(42), 160))

\* the columns np.random fills after np.random.seed(42)
SeededFinancialTrends ==
    LET s0 == NpSeed(42)
    IN  [ticket_count |-> RandInt(s0, 200, 500, 30),
         daily_revenue |-> RandInt(NpAdvance(s0, 30), 500000, 1500000, 30),
         avg_ticket_price |-> RandUniform(NpAdvance(s0, 60), 400, 600, 30)]

\* the clock counts seconds; pd.date_range(end=t, periods=30, freq='D')
_get_mock_financial_trends(r, t) ==
    LET dates == [i \in 1..30 |-> t - (30 - i) * 86400]
    IN  Built(DataFrame(
            <<"flight_date", "ticket_count", "daily_revenue", "avg_ticket_price">>,
            [flight_date |-> dates,
             ticket_count |-> SeededFinancialTrends.ticket_count,
             daily_revenue |-> SeededFinancialTrends.daily_revenue,
             avg_ticket_price |-> SeededFinancialTrends.avg_ticket_price]),
            NpAdvance(NpSeed(42), 90))

----------------------------------------------------------------------------
(* The live queries: the column names each SELECT list produces, in order,  *)
(* as written in the query text.                                            *)

MetricMethods ==
    {"get_total_revenue", "get_revenue_by_route", "get_load_factor",
     "get_fleet_utilization", "get_fuel_efficiency", "get_maintenance_alerts",
     "get_passenger_demographics", "get_hr_metrics", "get_route_network",
     "get_financial_trends"}

QueryColumns(m) ==
    CASE m = "get_total_revenue" -> <<"total_revenue">>
      [] m = "get_revenue_by_route" ->
            <<"ROUTE_ID", "origin", "destination", "total_revenue", "ticket_count",
              "avg_ticket_price">>
      [] m = "get_load_factor" ->
            <<"FLIGHT_ID", "ROUTE_ID", "origin", "destination", "CAPACITY",
              "passengers_booked", "load_factor">>
      [] m = "get_fleet_utilization" ->
            <<"AIRPLANE_ID", "MODEL", "REGISTRATION_NUMBER", "TOTAL_FLIGHT_DISTANCE",
              "FLIGHT_HOURS", "FUEL_GALLONS_HOUR", "total_flights",
              "MAINTENANCE_LAST_ACHECK", "MAINTENANCE_TAKEOFFS">>
      [] m = "get_fuel_efficiency" ->
            <<"MODEL", "aircraft_count", "avg_fuel_consumption", "avg_distance",
              "avg_flight_hours">>
      [] m = "get_maintenance_alerts" ->
            <<"AIRPLANE_ID", "MODEL", "REGISTRATION_NUMBER", "MAINTENANCE_LAST_ACHECK",
              "MAINTENANCE_TAKEOFFS", "maintenance_status">>
      [] m = "get_passenger_demographics" ->
            <<"GENDER", "passenger_count", "avg_age", "min_age", "max_age">>
      [] m = "get_hr_metrics" ->
            <<"DEPARTMENT_ID", "DEPARTMENT_NAME", "headcount", "total_salary",
              "avg_salary">>
      [] m = "get_route_network" ->
            <<"ROUTE_ID", "origin_id", "origin", "origin_lat", "origin_lon",
              "destination_id", "destination", "destination_lat", "destination_lon",
              "flight_count", "passenger_count">>
      [] m = "get_financial_trends" ->
            <<"flight_date", "ticket_count", "daily_revenue", "avg_ticket_price">>

\* the sample-table routine of each metric method
MockOf(m, r, t) ==
    CASE m = "get_total_revenue" -> _get_mock_total_revenue(r, t)
      [] m = "get_revenue_by_route" -> _get_mock_revenue_by_route(r, t)
      [] m = "get_load_factor" -> _get_mock_load_factor(r, t)
      [] m = "get_fleet_utilization" -> _get_mock_fleet_utilization(r, t)
      [] m = "get_fuel_efficiency" -> _get_mock_fuel_efficiency(r, t)
      [] m = "get_maintenance_alerts" -> _get_mock_maintenance_alerts(r, t)
      [] m = "get_passenger_demographics" -> _get_mock_passenger_demographics(r, t)
      [] m = "get_hr_metrics" -> _get_mock_hr_metrics(r, t)
      [] m = "get_route_network" -> _get_mock_route_network(r, t)
      [] m = "get_financial_trends" -> _get_mock_financial_trends(r, t)

\* what a successful query with the given SELECT list can return: a table
\* with exactly those columns and 0..MaxLiveRows rows
LiveTables(columns) ==
    { [columns |-> columns,
       data |-> [c \in Range(columns) |-> [i \in 1..n |-> i]]] : n \in 0..MaxLiveRows }

----------------------------------------------------------------------------
(* The connector.  Each method is an operator from the instance s and the   *)
(* behaviour of the store during the call to an outcome record:             *)
(*   self      the instance after the call                                  *)
(*   raised    the call raised to its caller                                *)
(*   src       where the returned table came from: "live", "mock", "empty"  *)
(*   table     the returned table                                           *)
(*   value     the returned truth value (test_connection)                   *)
(*   rng       the generator state after the call                           *)
(*   failed    an exception was caught during the call                      *)
(*   readSql   number of pd.read_sql calls made                             *)
(*   getConn   number of _get_connection calls made                         *)
(*   connects  number of ibm_db.connect calls made                          *)
(*   opened    number of those connect calls that succeeded                 *)

\* os.getenv(name, default) on the environment env
getenv(env, name, default) == IF env[name] = None THEN default ELSE env[name]

\* the environments the connector is constructed in
Environments ==
    { [DB_USERNAME |-> None, DB_PASSWORD |-> None, DB_HOST |-> None,
       DB_PORT |-> None, DB_NAME |-> None],
      [DB_USERNAME |-> "test_user", DB_PASSWORD |-> "test_password",
       DB_HOST |-> None, DB_PORT |-> None, DB_NAME |-> None],
      [DB_USERNAME |-> "", DB_PASSWORD |-> "",
       DB_HOST |-> None, DB_PORT |-> None, DB_NAME |-> None] }

\* a connection test whose except branch forgets self.use_mock = True
test_connection_NoLatch(s, connectOk, probeOk, h) ==
    IF connectOk /\ probeOk
    THEN [self |-> [s EXCEPT !.connection = h], raised |-> FALSE, value |-> TRUE,
          failed |-> FALSE, connects |-> 1, opened |-> 1]
    ELSE IF connectOk
    THEN [self |-> [s EXCEPT !.connection = h], raised |-> FALSE,
          value |-> FALSE, failed |-> TRUE, connects |-> 1, opened |-> 1]
    ELSE [self |-> s, raised |-> FALSE,
          value |-> FALSE, failed |-> TRUE, connects |-> 1, opened |-> 0]

\* a connection test that clears use_mock when it succeeds
test_connection_Reset(s, connectOk, probeOk, h) ==
    IF connectOk /\ probeOk
    THEN [self |-> [s EXCEPT !.connection = h, !.use_mock = FALSE], raised |-> FALSE,
          value |-> TRUE, failed |-> FALSE, connects |-> 1, opened |-> 1]
    ELSE IF connectOk
    THEN [self |-> [s EXCEPT !.connection = h, !.use_mock = TRUE], raised |-> FALSE,
          value |-> FALSE, failed |-> TRUE, connects |-> 1, opened |-> 1]
    ELSE [self |-> [s EXCEPT !.use_mock = TRUE], raised |-> FALSE,
          value |-> FALSE, failed |-> TRUE, connects |-> 1, opened |-> 0]

\* a connection test that never runs the probe
test_connection_NoProbe(s, connectOk, probeOk, h) ==
    IF connectOk
    THEN [self |-> [s EXCEPT !.connection = h], raised |-> FALSE, value |-> TRUE,
          failed |-> FALSE, connects |-> 1, opened |-> 1]
    ELSE [self |-> [s EXCEPT !.use_mock = TRUE], raised |-> FALSE,
          value |-> FALSE, failed |-> TRUE, connects |-> 1, opened |-> 0]

\* a connection test that keeps the handle the instance already holds
test_connection_KeepsHandle(s, connectOk, probeOk, h) ==
    LET kept == IF s.connection = NoConnection THEN h ELSE s.connection
    IN  IF connectOk /\ probeOk
        THEN [self |-> [s EXCEPT !.connection = kept], raised |-> FALSE, value |-> TRUE,
              failed |-> FALSE, connects |-> 1, opened |-> 1]
        ELSE IF connectOk
        THEN [self |-> [s EXCEPT !.connection = kept, !.use_mock = TRUE],
              raised |-> FALSE, value |-> FALSE, failed |-> TRUE, connects |-> 1,
              opened |-> 1]
        ELSE [self |-> [s EXCEPT !.use_mock = TRUE], raised |-> FALSE,
              value |-> FALSE, failed |-> TRUE, connects |-> 1, opened |-> 0]

\* ibm_db.connect then the probe SELECT 1 FROM SYSIBM.SYSDUMMY1; h is the
\* handle the driver hands out when the connect succeeds
test_connection(s, connectOk, probeOk, h) ==
    IF connectOk /\ probeOk
    THEN [self |-> [s EXCEPT !.connection = h], raised |-> FALSE, value |-> TRUE,
          failed |-> FALSE, connects |-> 1, opened |-> 1]
    ELSE IF connectOk
    THEN [self |-> [s EXCEPT !.connection = h, !.use_mock = TRUE], raised |-> FALSE,
          value |-> FALSE, failed |-> TRUE, connects |-> 1, opened |-> 1]
    ELSE [self |-> [s EXCEPT !.use_mock = TRUE], raised |-> FALSE,
          value |-> FALSE, failed |-> TRUE, connects |-> 1, opened |-> 0]

\* DB2Connector(): the fields, then the connection test
__init__(env, connectOk, probeOk, h) ==
    test_connection(
        [username |-> getenv(env, "DB_USERNAME", None),
         password |-> getenv(env, "DB_PASSWORD", None),
         host |-> getenv(env, "DB_HOST", "52.211.123.34"),
         port |-> getenv(env, "DB_PORT", "25010"),
         database |-> getenv(env, "DB_NAME", "IEMASTER"),
         use_mock |-> FALSE,
         connection |-> NoConnection],
        connectOk, probeOk, h)

\* a _get_connection that connects on every call, handle or not
_get_connection_AlwaysConnect(s, connectOk, h) ==
    IF connectOk
    THEN [self |-> [s EXCEPT !.connection = h], conn |-> h,
          failed |-> FALSE, connects |-> 1, opened |-> 1]
    ELSE [self |-> [s EXCEPT !.use_mock = TRUE], conn |-> NoConnection,
          failed |-> TRUE, connects |-> 1, opened |-> 0]

_get_connection(s, connectOk, h) ==
    IF s.connection = NoConnection
    THEN IF connectOk
         THEN [self |-> [s EXCEPT !.connection = h], conn |-> h,
               failed |-> FALSE, connects |-> 1, opened |-> 1]
         ELSE [self |-> [s EXCEPT !.use_mock = TRUE], conn |-> NoConnection,
               failed |-> TRUE, connects |-> 1, opened |-> 0]
    ELSE [self |-> s, conn |-> s.connection,
          failed |-> FALSE, connects |-> 0, opened |-> 0]

\* pd.read_sql(query, con): raises without a usable connection or when the
\* store rejects the query, else returns the table the store produced
read_sql(con, queryOk, tbl) ==
    IF con = NoConnection \/ ~queryOk
    THEN [raised |-> TRUE, table |-> EmptyFrame]
    ELSE [raised |-> FALSE, table |-> tbl]

\* a metric method that never looks at use_mock and always tries the store
LiveOrMock_AlwaysLive(mk, s, r, connectOk, queryOk, tbl, h) ==
    LET gc == _get_connection(s, connectOk, h)
        rs == read_sql(gc.conn, queryOk, tbl)
    IN  IF ~rs.raised
        THEN [self |-> gc.self, raised |-> FALSE, src |-> "live",
              table |-> rs.table, rng |-> r, failed |-> gc.failed,
              readSql |-> 1, getConn |-> 1,
              connects |-> gc.connects, opened |-> gc.opened]
        ELSE [self |-> [gc.self EXCEPT !.use_mock = TRUE], raised |-> mk.raised,
              src |-> "mock", table |-> mk.table, rng |-> mk.rng,
              failed |-> TRUE, readSql |-> 1, getConn |-> 1,
              connects |-> gc.connects, opened |-> gc.opened]

\* a metric method whose except branch forgets self.use_mock = True
LiveOrMock_NoLatch(mk, s, r, connectOk, queryOk, tbl, h) ==
    IF s.use_mock
    THEN [self |-> s, raised |-> mk.raised, src |-> "mock", table |-> mk.table,
          rng |-> mk.rng, failed |-> FALSE, readSql |-> 0, getConn |-> 0,
          connects |-> 0, opened |-> 0]
    ELSE LET gc == _get_connection(s, connectOk, h)
             rs == read_sql(gc.conn, queryOk, tbl)
         IN  IF ~rs.raised
             THEN [self |-> gc.self, raised |-> FALSE, src |-> "live",
                   table |-> rs.table, rng |-> r, failed |-> gc.failed,
                   readSql |-> 1, getConn |-> 1,
                   connects |-> gc.connects, opened |-> gc.opened]
             ELSE [self |-> gc.self, raised |-> mk.raised,
                   src |-> "mock", table |-> mk.table, rng |-> mk.rng,
                   failed |-> TRUE, readSql |-> 1, getConn |-> 1,
                   connects |-> gc.connects, opened |-> gc.opened]

\* a metric method that sets self.use_mock = True on the success path too
LiveOrMock_LatchOnSuccess(mk, s, r, connectOk, queryOk, tbl, h) ==
    IF s.use_mock
    THEN [self |-> s, raised |-> mk.raised, src |-> "mock", table |-> mk.table,
          rng |-> mk.rng, failed |-> FALSE, readSql |-> 0, getConn |-> 0,
          connects |-> 0, opened |-> 0]
    ELSE LET gc == _get_connection(s, connectOk, h)
             rs == read_sql(gc.conn, queryOk, tbl)
         IN  IF ~rs.raised
             THEN [self |-> [gc.self EXCEPT !.use_mock = TRUE], raised |-> FALSE,
                   src |-> "live",
                   table |-> rs.table, rng |-> r, failed |-> gc.failed,
                   readSql |-> 1, getConn |-> 1,
                   connects |-> gc.connects, opened |-> gc.opened]
             ELSE [self |-> [gc.self EXCEPT !.use_mock = TRUE], raised |-> mk.raised,
                   src |-> "mock", table |-> mk.table, rng |-> mk.rng,
                   failed |-> TRUE, readSql |-> 1, getConn |-> 1,
                   connects |-> gc.connects, opened |-> gc.opened]

\* a metric method whose except branch also drops the connection handle
LiveOrMock_DropsHandle(mk, s, r, connectOk, queryOk, tbl, h) ==
    IF s.use_mock
    THEN [self |-> s, raised |-> mk.raised, src |-> "mock", table |-> mk.table,
          rng |-> mk.rng, failed |-> FALSE, readSql |-> 0, getConn |-> 0,
          connects |-> 0, opened |-> 0]
    ELSE LET gc == _get_connection(s, connectOk, h)
             rs == read_sql(gc.conn, queryOk, tbl)
         IN  IF ~rs.raised
             THEN [self |-> gc.self, raised |-> FALSE, src |-> "live",
                   table |-> rs.table, rng |-> r, failed |-> gc.failed,
                   readSql |-> 1, getConn |-> 1,
                   connects |-> gc.connects, opened |-> gc.opened]
             ELSE [self |-> [gc.self EXCEPT !.use_mock = TRUE,
                                            !.connection = NoConnection],
                   raised |-> mk.raised,
                   src |-> "mock", table |-> mk.table, rng |-> mk.rng,
                   failed |-> TRUE, readSql |-> 1, getConn |-> 1,
                   connects |-> gc.connects, opened |-> gc.opened]

\* a metric method that runs the live query but hands back the sample table
LiveOrMock_DiscardsResult(mk, s, r, connectOk, queryOk, tbl, h) ==
    IF s.use_mock
    THEN [self |-> s, raised |-> mk.raised, src |-> "mock", table |-> mk.table,
          rng |-> mk.rng, failed |-> FALSE, readSql |-> 0, getConn |-> 0,
          connects |-> 0, opened |-> 0]
    ELSE LET gc == _get_connection(s, connectOk, h)
             rs == read_sql(gc.conn, queryOk, tbl)
         IN  IF ~rs.raised
             THEN [self |-> gc.self, raised |-> mk.raised, src |-> "live",
                   table |-> mk.table, rng |-> mk.rng, failed |-> gc.failed,
                   readSql |-> 1, getConn |-> 1,
                   connects |-> gc.connects, opened |-> gc.opened]
             ELSE [self |-> [gc.self EXCEPT !.use_mock = TRUE], raised |-> mk.raised,
                   src |-> "mock", table |-> mk.table, rng |-> mk.rng,
                   failed |-> TRUE, readSql |-> 1, getConn |-> 1,
                   connects |-> gc.connects, opened |-> gc.opened]

\* a metric method that opens a connection of its own for every live query
LiveOrMock_Reconnects(mk, s, r, connectOk, queryOk, tbl, h) ==
    IF s.use_mock
    THEN [self |-> s, raised |-> mk.raised, src |-> "mock", table |-> mk.table,
          rng |-> mk.rng, failed |-> FALSE, readSql |-> 0, getConn |-> 0,
          connects |-> 0, opened |-> 0]
    ELSE LET gc == _get_connection_AlwaysConnect(s, connectOk, h)
             rs == read_sql(gc.conn, queryOk, tbl)
         IN  IF ~rs.raised
             THEN [self |-> gc.self, raised |-> FALSE, src |-> "live",
                   table |-> rs.table, rng |-> r, failed |-> gc.failed,
                   readSql |-> 1, getConn |-> 1,
                   connects |-> gc.connects, opened |-> gc.opened]
             ELSE [self |-> [gc.self EXCEPT !.use_mock = TRUE], raised |-> mk.raised,
                   src |-> "mock", table |-> mk.table, rng |-> mk.rng,
                   failed |-> TRUE, readSql |-> 1, getConn |-> 1,
                   connects |-> gc.connects, opened |-> gc.opened]

\* the body shared by the ten metric methods: the sample table when degraded,
\* else the live query, and on any exception degrade and the sample table;
\* mk is the outcome of the method's own sample-table routine
LiveOrMock(mk, s, r, connectOk, queryOk, tbl, h) ==
    IF s.use_mock
    THEN [self |-> s, raised |-> mk.raised, src |-> "mock", table |-> mk.table,
          rng |-> mk.rng, failed |-> FALSE, readSql |-> 0, getConn |-> 0,
          connects |-> 0, opened |-> 0]
    ELSE LET gc == _get_connection(s, connectOk, h)
             rs == read_sql(gc.conn, queryOk, tbl)
         IN  IF ~rs.raised
             THEN [self |-> gc.self, raised |-> FALSE, src |-> "live",
                   table |-> rs.table, rng |-> r, failed |-> gc.failed,
                   readSql |-> 1, getConn |-> 1,
                   connects |-> gc.connects, opened |-> gc.opened]
             ELSE [self |-> [gc.self EXCEPT !.use_mock = TRUE], raised |-> mk.raised,
                   src |-> "mock", table |-> mk.table, rng |-> mk.rng,
                   failed |-> TRUE, readSql |-> 1, getConn |-> 1,
                   connects |-> gc.connects, opened |-> gc.opened]

get_total_revenue(s, r, t, connectOk, queryOk, tbl, h) ==
    LiveOrMock(_get_mock_total_revenue(r, t), s, r, connectOk, queryOk, tbl, h)

get_revenue_by_route(s, r, t, connectOk, queryOk, tbl, h) ==
    LiveOrMock(_get_mock_revenue_by_route(r, t), s, r, connectOk, queryOk, tbl, h)

get_load_factor(s, r, t, connectOk, queryOk, tbl, h) ==
    LiveOrMock(_get_mock_load_factor(r, t), s, r, connectOk, queryOk, tbl, h)

get_fleet_utilization(s, r, t, connectOk, queryOk, tbl, h) ==
    LiveOrMock(_get_mock_fleet_utilization(r, t), s, r, connectOk, queryOk, tbl, h)

get_fuel_efficiency(s, r, t, connectOk, queryOk, tbl, h) ==
    LiveOrMock(_get_mock_fuel_efficiency(r, t), s, r, connectOk, queryOk, tbl, h)

get_maintenance_alerts(s, r, t, connectOk, queryOk, tbl, h) ==
    LiveOrMock(_get_mock_maintenance_alerts(r, t), s, r, connectOk, queryOk, tbl, h)

get_passenger_demographics(s, r, t, connectOk, queryOk, tbl, h) ==
    LiveOrMock(_get_mock_passenger_demographics(r, t), s, r, connectOk, queryOk, tbl, h)

get_hr_metrics(s, r, t, connectOk, queryOk, tbl, h) ==
    LiveOrMock(_get_mock_hr_metrics(r, t), s, r, connectOk, queryOk, tbl, h)

get_route_network(s, r, t, connectOk, queryOk, tbl, h) ==
    LiveOrMock(_get_mock_route_network(r, t), s, r, connectOk, queryOk, tbl, h)

get_financial_trends(s, r, t, connectOk, queryOk, tbl, h) ==
    LiveOrMock(_get_mock_financial_trends(r, t), s, r, connectOk, queryOk, tbl, h)

\* an execute_query that returns early, without a query, when degraded
execute_query_SkipsWhenMock(s, r, connectOk, queryOk, tbl, h) ==
    IF s.use_mock
    THEN [self |-> s, raised |-> FALSE, src |-> "empty", table |-> EmptyFrame,
          rng |-> r, failed |-> FALSE, readSql |-> 0, getConn |-> 0,
          connects |-> 0, opened |-> 0]
    ELSE LET gc == _get_connection(s, connectOk, h)
             rs == read_sql(gc.conn, queryOk, tbl)
         IN  IF ~rs.raised
             THEN [self |-> gc.self, raised |-> FALSE, src |-> "live",
                   table |-> rs.table, rng |-> r, failed |-> gc.failed,
                   readSql |-> 1, getConn |-> 1,
                   connects |-> gc.connects, opened |-> gc.opened]
             ELSE [self |-> [gc.self EXCEPT !.use_mock = TRUE], raised |-> FALSE,
                   src |-> "empty", table |-> EmptyFrame, rng |-> r,
                   failed |-> TRUE, readSql |-> 1, getConn |-> 1,
                   connects |-> gc.connects, opened |-> gc.opened]

\* an execute_query whose except branch leaves use_mock alone
execute_query_NoLatch(s, r, connectOk, queryOk, tbl, h) ==
    LET gc == _get_connection(s, connectOk, h)
        rs == read_sql(gc.conn, queryOk, tbl)
    IN  IF ~rs.raised
        THEN [self |-> gc.self, raised |-> FALSE, src |-> "live", table |-> rs.table,
              rng |-> r, failed |-> gc.failed, readSql |-> 1, getConn |-> 1,
              connects |-> gc.connects, opened |-> gc.opened]
        ELSE [self |-> s, raised |-> FALSE,
              src |-> "empty", table |-> EmptyFrame, rng |-> r, failed |-> TRUE,
              readSql |-> 1, getConn |-> 1,
              connects |-> gc.connects, opened |-> gc.opened]

\* execute_query(query): no look at use_mock; the result, or on any
\* exception degrade and an empty table
execute_query(s, r, connectOk, queryOk, tbl, h) ==
    LET gc == _get_connection(s, connectOk, h)
        rs == read_sql(gc.conn, queryOk, tbl)
    IN  IF ~rs.raised
        THEN [self |-> gc.self, raised |-> FALSE, src |-> "live", table |-> rs.table,
              rng |-> r, failed |-> gc.failed, readSql |-> 1, getConn |-> 1,
              connects |-> gc.connects, opened |-> gc.opened]
        ELSE [self |-> [gc.self EXCEPT !.use_mock = TRUE], raised |-> FALSE,
              src |-> "empty", table |-> EmptyFrame, rng |-> r, failed |-> TRUE,
              readSql |-> 1, getConn |-> 1,
              connects |-> gc.connects, opened |-> gc.opened]

----------------------------------------------------------------------------
(* The state machine: one connector instance, constructed in Init, and its  *)
(* callers invoking its methods one at a time (single-threaded).            *)

\* the columns of the custom queries the repository's scripts issue
CustomQueryColumns == <<"TABNAME", "COLNAME">>

\* the driver can hand out a handle only while it has one left
ConnectOutcomes == IF handles < MaxHandles THEN BOOLEAN ELSE {FALSE}

\* what the store can do during one call: accept or refuse the connect,
\* reject the query or answer it with a table of the selected columns
StoreBehaviours(columns) ==
    { [connectOk |-> c, queryOk |-> FALSE, table |-> EmptyFrame] : c \in ConnectOutcomes }
    \cup
    { [connectOk |-> c, queryOk |-> TRUE, table |-> tb] :
          c \in ConnectOutcomes, tb \in LiveTables(columns) }

\* what the store was asked to do with the query of one call
Asked(b) == [queryOk |-> b.queryOk, table |-> b.table]

\* the store of a call that issued no query
NotAsked == [queryOk |-> FALSE, table |-> EmptyFrame]

\* how the two steps of a connection test went: the probe is only run on a
\* connection that opened
Steps(connectOk, probeOk) ==
    IF ~connectOk THEN "connect raised"
    ELSE IF ~probeOk THEN "probe raised" ELSE "ok"

\* the other two programs are not running
NoTool == [phase |-> "off"]
NoDash == [phase |-> "off"]
NoLocal == [phase |-> "off"]

\* a call that asked for no connection and issued no query has not consulted
\* the driver or the store: their behaviour cannot have influenced it
StoreNotConsulted(out) == out.getConn = 0 /\ out.readSql = 0 /\ out.connects = 0

\* what the caller and the store see of one call; s, h and t are the
\* instance, the history and the clock when the call was made
Observation(op, out, s, h, t, remember, asked) ==
    [op |-> op,
     raised |-> out.raised,
     src |-> IF out.raised THEN "raise" ELSE out.src,
     table |-> IF out.raised THEN EmptyFrame ELSE out.table,
     value |-> FALSE,
     failed |-> out.failed,
     at |-> t,
     mockAtEntry |-> s.use_mock,
     mockAtExit |-> out.self.use_mock,
     failedBefore |-> h.failed,
     connAtEntry |-> s.connection,
     readSql |-> out.readSql,
     getConn |-> out.getConn,
     connects |-> out.connects,
     remembered |-> remember,
     steps |-> "none",
     store |-> asked]

Init ==
    \E env \in Environments, c \in BOOLEAN, p \in BOOLEAN :
        LET out == __init__(env, c, p, 1)
        IN  /\ self = out.self
            /\ rng \in 0..MaxEntropy
            /\ now = 0
            /\ handles = out.opened
            /\ ret = [op |-> "__init__", raised |-> out.raised, src |-> "none",
                      table |-> EmptyFrame, value |-> FALSE,
                      failed |-> out.failed, at |-> 0,
                      mockAtEntry |-> FALSE, mockAtExit |-> out.self.use_mock,
                      failedBefore |-> FALSE, connAtEntry |-> NoConnection,
                      readSql |-> 0, getConn |-> 0, connects |-> out.connects,
                      remembered |-> FALSE, steps |-> Steps(c, p),
                      store |-> NotAsked]
            /\ hist = [failed |-> out.failed,
                       ctorRaised |-> out.raised,
                       ctorConnectFailed |-> (out.opened = 0),
                       everConnected |-> (out.opened > 0)]
            /\ watch = NoWatch
            /\ tool = NoTool
            /\ dash = NoDash
            /\ local = NoLocal

\* a metric method or execute_query returns (or raises) with outcome out;
\* one sample table returned by some call is remembered in watch
Returns(op, out, asked) ==
    \E remember \in (IF ~out.raised /\ out.src = "mock" /\ watch = NoWatch
                     THEN BOOLEAN ELSE {FALSE}) :
        /\ self' = out.self
        /\ rng' = out.rng
        /\ handles' = handles + out.opened
        /\ ret' = Observation(op, out, self, hist, now, remember, asked)
        /\ hist' = [hist EXCEPT !.failed = @ \/ out.failed,
                                !.everConnected = @ \/ (out.opened > 0)]
        /\ watch' = IF remember THEN [op |-> op, table |-> out.table] ELSE watch
        /\ UNCHANGED <<now, tool, dash, local>>

Call_get_total_revenue ==
    LET quiet == get_total_revenue(self, rng, now, FALSE, FALSE, EmptyFrame, handles + 1)
    IN  IF StoreNotConsulted(quiet)
        THEN Returns("get_total_revenue", quiet, NotAsked)
        ELSE \E b \in StoreBehaviours(QueryColumns("get_total_revenue")) :
                 Returns("get_total_revenue",
                         get_total_revenue(self, rng, now, b.connectOk, b.queryOk, b.table,
                             handles + 1),
                         Asked(b))

Call_get_revenue_by_route ==
    LET quiet == get_revenue_by_route(self, rng, now, FALSE, FALSE, EmptyFrame, handles + 1)
    IN  IF StoreNotConsulted(quiet)
        THEN Returns("get_revenue_by_route", quiet, NotAsked)
        ELSE \E b \in StoreBehaviours(QueryColumns("get_revenue_by_route")) :
                 Returns("get_revenue_by_route",
                         get_revenue_by_route(self, rng, now, b.connectOk, b.queryOk, b.table,
                             handles + 1),
                         Asked(b))

Call_get_load_factor ==
    LET quiet == get_load_factor(self, rng, now, FALSE, FALSE, EmptyFrame, handles + 1)
    IN  IF StoreNotConsulted(quiet)
        THEN Returns("get_load_factor", quiet, NotAsked)
        ELSE \E b \in StoreBehaviours(QueryColumns("get_load_factor")) :
                 Returns("get_load_factor",
                         get_load_factor(self, rng, now, b.connectOk, b.queryOk, b.table,
                             handles + 1),
                         Asked(b))

Call_get_fleet_utilization ==
    LET quiet == get_fleet_utilization(self, rng, now, FALSE, FALSE, EmptyFrame, handles + 1)
    IN  IF StoreNotConsulted(quiet)
        THEN Returns("get_fleet_utilization", quiet, NotAsked)
        ELSE \E b \in StoreBehaviours(QueryColumns("get_fleet_utilization")) :
                 Returns("get_fleet_utilization",
                         get_fleet_utilization(self, rng, now, b.connectOk, b.queryOk, b.table,
                             handles + 1),
                         Asked(b))

Call_get_fuel_efficiency ==
    LET quiet == get_fuel_efficiency(self, rng, now, FALSE, FALSE, EmptyFrame, handles + 1)
    IN  IF StoreNotConsulted(quiet)
        THEN Returns("get_fuel_efficiency", quiet, NotAsked)
        ELSE \E b \in StoreBehaviours(QueryColumns("get_fuel_efficiency")) :
                 Returns("get_fuel_efficiency",
                         get_fuel_efficiency(self, rng, now, b.connectOk, b.queryOk, b.table,
                             handles + 1),
                         Asked(b))

Call_get_maintenance_alerts ==
    LET quiet == get_maintenance_alerts(self, rng, now, FALSE, FALSE, EmptyFrame, handles + 1)
    IN  IF StoreNotConsulted(quiet)
        THEN Returns("get_maintenance_alerts", quiet, NotAsked)
        ELSE \E b \in StoreBehaviours(QueryColumns("get_maintenance_alerts")) :
                 Returns("get_maintenance_alerts",
                         get_maintenance_alerts(self, rng, now, b.connectOk, b.queryOk, b.table,
                             handles + 1),
                         Asked(b))

Call_get_passenger_demographics ==
    LET quiet == get_passenger_demographics(self, rng, now, FALSE, FALSE, EmptyFrame, handles + 1)
    IN  IF StoreNotConsulted(quiet)
        THEN Returns("get_passenger_demographics", quiet, NotAsked)
        ELSE \E b \in StoreBehaviours(QueryColumns("get_passenger_demographics")) :
                 Returns("get_passenger_demographics",
                         get_passenger_demographics(self, rng, now, b.connectOk, b.queryOk, b.table,
                             handles + 1),
                         Asked(b))

Call_get_hr_metrics ==
    LET quiet == get_hr_metrics(self, rng, now, FALSE, FALSE, EmptyFrame, handles + 1)
    IN  IF StoreNotConsulted(quiet)
        THEN Returns("get_hr_metrics", quiet, NotAsked)
        ELSE \E b \in StoreBehaviours(QueryColumns("get_hr_metrics")) :
                 Returns("get_hr_metrics",
                         get_hr_metrics(self, rng, now, b.connectOk, b.queryOk, b.table,
                             handles + 1),
                         Asked(b))

Call_get_route_network ==
    LET quiet == get_route_network(self, rng, now, FALSE, FALSE, EmptyFrame, handles + 1)
    IN  IF StoreNotConsulted(quiet)
        THEN Returns("get_route_network", quiet, NotAsked)
        ELSE \E b \in StoreBehaviours(QueryColumns("get_route_network")) :
                 Returns("get_route_network",
                         get_route_network(self, rng, now, b.connectOk, b.queryOk, b.table,
                             handles + 1),
                         Asked(b))

Call_get_financial_trends ==
    LET quiet == get_financial_trends(self, rng, now, FALSE, FALSE, EmptyFrame, handles + 1)
    IN  IF StoreNotConsulted(quiet)
        THEN Returns("get_financial_trends", quiet, NotAsked)
        ELSE \E b \in StoreBehaviours(QueryColumns("get_financial_trends")) :
                 Returns("get_financial_trends",
                         get_financial_trends(self, rng, now, b.connectOk, b.queryOk, b.table,
                             handles + 1),
                         Asked(b))

Call_execute_query ==
    \E b \in StoreBehaviours(CustomQueryColumns) :
        Returns("execute_query",
                execute_query(self, rng, b.connectOk, b.queryOk, b.table, handles + 1),
                Asked(b))

Call_test_connection ==
    \E c \in ConnectOutcomes, p \in BOOLEAN :
        LET out == test_connection(self, c, p, handles + 1)
        IN  /\ self' = out.self
            /\ handles' = handles + out.opened
            /\ ret' = [op |-> "test_connection", raised |-> out.raised, src |-> "none",
                       table |-> EmptyFrame, value |-> out.value,
                       failed |-> out.failed, at |-> now,
                       mockAtEntry |-> self.use_mock,
                       mockAtExit |-> out.self.use_mock,
                       failedBefore |-> hist.failed,
                       connAtEntry |-> self.connection,
                       readSql |-> 0, getConn |-> 0, connects |-> out.connects,
                       remembered |-> FALSE, steps |-> Steps(c, p),
                       store |-> NotAsked]
            /\ hist' = [hist EXCEPT !.failed = @ \/ out.failed,
                                    !.everConnected = @ \/ (out.opened > 0)]
            /\ UNCHANGED <<rng, now, watch, tool, dash, local>>

\* time passes between calls
Tick ==
    /\ now < MaxClock
    /\ now' = now + 1
    /\ UNCHANGED <<self, rng, handles, ret, hist, watch, tool, dash, local>>

Next ==
    \/ Call_get_total_revenue
    \/ Call_get_revenue_by_route
    \/ Call_get_load_factor
    \/ Call_get_fleet_utilization
    \/ Call_get_fuel_efficiency
    \/ Call_get_maintenance_alerts
    \/ Call_get_passenger_demographics
    \/ Call_get_hr_metrics
    \/ Call_get_route_network
    \/ Call_get_financial_trends
    \/ Call_execute_query
    \/ Call_test_connection
    \/ Tick

Spec == Init /\ [][Next]_vars

----------------------------------------------------------------------------
(* The dashboard.  A page is a script that fetches tables and renders one   *)
(* section after the other; every section has the same shape: test          *)
(* df.empty, pick each column under its upper-case or its lower-case name,  *)
(* then index the table with the picked names.                              *)

\* df.empty: some axis of the table has length zero
empty(tbl) == Len(tbl.columns) = 0 \/ NRows(tbl) = 0

\* "UPPER" if "UPPER" in df.columns else "lower"
Pick(names, tbl) == IF names[1] \in Range(tbl.columns) THEN names[1] ELSE names[2]

\* the sections of the pages: the connector method whose table they consume,
\* the columns they pick, and what their else branch shows for an empty table
Sections ==
    [ExecTotalRevenue |->
        [method |-> "get_total_revenue",
         picks |-> {<<"TOTAL_REVENUE", "total_revenue">>},
         onEmpty |-> "N/A"],
     ExecLoadFactor |->
        [method |-> "get_load_factor",
         picks |-> {<<"LOAD_FACTOR", "load_factor">>},
         onEmpty |-> "N/A"],
     ExecActiveFleet |->
        [method |-> "get_fleet_utilization",
         picks |-> {},
         onEmpty |-> "N/A"],
     ExecTotalPassengers |->
        [method |-> "get_passenger_demographics",
         picks |-> {<<"PASSENGER_COUNT", "passenger_count">>},
         onEmpty |-> "N/A"],
     ExecRevenueTrends |->
        [method |-> "get_financial_trends",
         picks |-> {<<"FLIGHT_DATE", "flight_date">>, <<"DAILY_REVENUE", "daily_revenue">>},
         onEmpty |-> "info"],
     FinTotalRevenue |->
        [method |-> "get_total_revenue",
         picks |-> {<<"TOTAL_REVENUE", "total_revenue">>},
         onEmpty |-> "nothing"],
     FinTopRoutes |->
        [method |-> "get_revenue_by_route",
         picks |-> {<<"ORIGIN", "origin">>, <<"DESTINATION", "destination">>,
                    <<"TOTAL_REVENUE", "total_revenue">>},
         onEmpty |-> "nothing"],
     FinRevenueByOrigin |->
        [method |-> "get_revenue_by_route",
         picks |-> {<<"ORIGIN", "origin">>, <<"TOTAL_REVENUE", "total_revenue">>},
         onEmpty |-> "nothing"],
     FinRouteProfitability |->
        [method |-> "get_revenue_by_route",
         picks |-> {<<"TOTAL_REVENUE", "total_revenue">>, <<"TICKET_COUNT", "ticket_count">>,
                    <<"AVG_TICKET_PRICE", "avg_ticket_price">>, <<"ORIGIN", "origin">>,
                    <<"DESTINATION", "destination">>},
         onEmpty |-> "info"],
     FinTicketAnalysis |->
        [method |-> "get_revenue_by_route",
         picks |-> {<<"TICKET_COUNT", "ticket_count">>,
                    <<"AVG_TICKET_PRICE", "avg_ticket_price">>,
                    <<"TOTAL_REVENUE", "total_revenue">>, <<"ORIGIN", "origin">>},
         onEmpty |-> "info"],
     FleetUtilization |->
        [method |-> "get_fleet_utilization",
         picks |-> {<<"TOTAL_FLIGHT_DISTANCE", "total_flight_distance">>,
                    <<"TOTAL_FLIGHTS", "total_flights">>,
                    <<"AIRCRAFT_REGISTRATION", "aircraft_registration">>,
                    <<"MODEL", "model">>, <<"TOTAL_SEATS", "total_seats">>},
         onEmpty |-> "nothing"],
     FleetFuelEfficiency |->
        [method |-> "get_fuel_efficiency",
         picks |-> {<<"MODEL", "model">>,
                    <<"AVG_FUEL_CONSUMPTION", "avg_fuel_consumption">>,
                    <<"AIRCRAFT_COUNT", "aircraft_count">>},
         onEmpty |-> "nothing"],
     FleetLoadFactor |->
        [method |-> "get_load_factor",
         picks |-> {<<"LOAD_FACTOR", "load_factor">>, <<"CAPACITY", "capacity">>,
                    <<"PASSENGERS_BOOKED", "passengers_booked">>,
                    <<"FLIGHT_ID", "flight_id">>, <<"ORIGIN", "origin">>,
                    <<"DESTINATION", "destination">>},
         onEmpty |-> "nothing"],
     FleetMaintenance |->
        [method |-> "get_maintenance_alerts",
         picks |-> {<<"MAINTENANCE_STATUS", "maintenance_status">>,
                    <<"AIRCRAFT_REGISTRATION", "aircraft_registration">>,
                    <<"MODEL", "model">>,
                    <<"MAINTENANCE_TAKEOFFS", "maintenance_takeoffs">>},
         onEmpty |-> "nothing"],
     RouteHeatmap |->
        [method |-> "get_route_network",
         picks |-> {<<"ORIGIN_LAT", "origin_lat">>, <<"ORIGIN_LON", "origin_lon">>,
                    <<"FLIGHT_COUNT", "flight_count">>,
                    <<"PASSENGER_COUNT", "passenger_count">>, <<"ORIGIN", "origin">>,
                    <<"DESTINATION", "destination">>},
         onEmpty |-> "nothing"],
     RouteLoadFactor |->
        [method |-> "get_load_factor",
         picks |-> {<<"ORIGIN", "origin">>, <<"LOAD_FACTOR", "load_factor">>,
                    <<"FLIGHT_ID", "flight_id">>},
         onEmpty |-> "nothing"],
     RouteDemographics |->
        [method |-> "get_passenger_demographics",
         picks |-> {<<"GENDER", "gender">>, <<"PASSENGER_COUNT", "passenger_count">>,
                    <<"AVG_AGE", "avg_age">>},
         onEmpty |-> "nothing"],
     HrDepartments |->
        [method |-> "get_hr_metrics",
         picks |-> {<<"DEPTNAME", "deptname">>, <<"HEADCOUNT", "headcount">>,
                    <<"TOTAL_SALARY", "total_salary">>, <<"AVG_SALARY", "avg_salary">>},
         onEmpty |-> "nothing"]]

SectionNames == DOMAIN Sections

\* the sections that consume the table of connector method m
ConsumersOf(m) == {n \in SectionNames : Sections[n].method = m}

\* a section that indexes the table without testing df.empty first
RenderSection_NoEmptyTest(sec, tbl) ==
    LET selected == {Pick(names, tbl) : names \in sec.picks}
        missing == selected \ Range(tbl.columns)
    IN  IF missing = {}
        THEN [raised |-> FALSE, shown |-> "content", selected |-> selected,
              missing |-> {}]
        ELSE [raised |-> TRUE, shown |-> "nothing", selected |-> selected,
              missing |-> missing]

\* one section rendered on the table tbl: the placeholder of its else branch
\* for an empty table; otherwise its metrics, charts and tables, or the
\* KeyError (ValueError from plotly) of a picked column the table lacks
RenderSection(sec, tbl) ==
    LET selected == {Pick(names, tbl) : names \in sec.picks}
        missing == selected \ Range(tbl.columns)
    IN  IF empty(tbl)
        THEN [raised |-> FALSE, shown |-> sec.onEmpty, selected |-> {},
              missing |-> {}]
        ELSE IF missing = {}
        THEN [raised |-> FALSE, shown |-> "content", selected |-> selected,
              missing |-> {}]
        ELSE [raised |-> TRUE, shown |-> "nothing", selected |-> selected,
              missing |-> missing]

----------------------------------------------------------------------------
(* The SQLAlchemy connector of src/connector.py: its configuration from the *)
(* environment, the SQL text it builds, and the parquet files it writes.    *)
(* Texts are strings; an Optional[int] is <<>> for None and <<n>> for n.    *)

\* the character of text s at position i (from 1)
Char(s, i) == SubSeq(s, i, i)

\* str.find, from 1: the first position of sub in s, 0 when there is none
Find(sub, s) ==
    LET hits == {i \in 1..(Len(s) - Len(sub) + 1) : SubSeq(s, i, i + Len(sub) - 1) = sub}
    IN  IF hits = {} THEN 0 ELSE CHOOSE i \in hits : \A j \in hits : i <= j

\* str.rfind, from 1: the last position of sub in s, 0 when there is none
RFind(sub, s) ==
    LET hits == {i \in 1..(Len(s) - Len(sub) + 1) : SubSeq(s, i, i + Len(sub) - 1) = sub}
    IN  IF hits = {} THEN 0 ELSE CHOOSE i \in hits : \A j \in hits : i >= j

\* str.lower() of one character
LowerChar(c) ==
    CASE c = "A" -> "a" [] c = "B" -> "b" [] c = "C" -> "c" [] c = "D" -> "d"
      [] c = "E" -> "e" [] c = "F" -> "f" [] c = "G" -> "g" [] c = "H" -> "h"
      [] c = "I" -> "i" [] c = "J" -> "j" [] c = "K" -> "k" [] c = "L" -> "l"
      [] c = "M" -> "m" [] c = "N" -> "n" [] c = "O" -> "o" [] c = "P" -> "p"
      [] c = "Q" -> "q" [] c = "R" -> "r" [] c = "S" -> "s" [] c = "T" -> "t"
      [] c = "U" -> "u" [] c = "V" -> "v" [] c = "W" -> "w" [] c = "X" -> "x"
      [] c = "Y" -> "y" [] c = "Z" -> "z" [] OTHER -> c

\* str.lower()
RECURSIVE Lower(_)
Lower(s) ==
    IF Len(s) = 0 THEN "" ELSE LowerChar(Char(s, 1)) \o Lower(SubSeq(s, 2, Len(s)))

\* text ends with suffix
EndsWith(txt, suffix) ==
    /\ Len(txt) >= Len(suffix)
    /\ SubSeq(txt, Len(txt) - Len(suffix) + 1, Len(txt)) = suffix

DigitValue(c) ==
    CASE c = "0" -> 0 [] c = "1" -> 1 [] c = "2" -> 2 [] c = "3" -> 3 [] c = "4" -> 4
      [] c = "5" -> 5 [] c = "6" -> 6 [] c = "7" -> 7 [] c = "8" -> 8 [] c = "9" -> 9
      [] OTHER -> -1

IsDigits(s) == Len(s) > 0 /\ \A i \in 1..Len(s) : DigitValue(Char(s, i)) >= 0

RECURSIVE DecimalValue(_)
DecimalValue(s) ==
    IF Len(s) = 0 THEN 0
    ELSE 10 * DecimalValue(SubSeq(s, 1, Len(s) - 1)) + DigitValue(Char(s, Len(s)))

\* int(text): the number a decimal text denotes, ValueError for other text
int(txt) ==
    IF IsDigits(txt) THEN [raised |-> FALSE, value |-> DecimalValue(txt)]
    ELSE [raised |-> TRUE, value |-> 0]

\* f"{i:03d}"
Pad3(i) ==
    IF i < 10 THEN "00" \o ToString(i)
    ELSE IF i < 100 THEN "0" \o ToString(i) ELSE ToString(i)

\* ", ".join(names)
RECURSIVE Join(_)
Join(names) ==
    IF Len(names) = 0 THEN ""
    ELSE IF Len(names) = 1 THEN names[1]
    ELSE names[1] \o ", " \o Join(Tail(names))

\* os.path.splitext: the extension starts at the last dot of the last path
\* component, unless that component has only dots before it
splitext(path) ==
    LET sepIndex == RFind("/", path)
        dotIndex == RFind(".", path)
    IN  IF /\ dotIndex > sepIndex
           /\ \E j \in (sepIndex + 1)..(dotIndex - 1) : Char(path, j) # "."
        THEN <<SubSeq(path, 1, dotIndex - 1), SubSeq(path, dotIndex, Len(path))>>
        ELSE <<path, "">>

\* the variables from_env reads, and those its docstring names
ReadNames == {"DB_HOST", "DB_PORT", "DB_NAME", "DB_USERNAME", "DB_PASSWORD"}
DocumentedNames == {"DB2_HOST", "DB2_PORT", "DB2_DATABASE", "DB2_USERNAME", "DB2_PASSWORD"}
EnvNames == ReadNames \cup DocumentedNames \cup {"DB2_DRIVER"}

\* the value a variable has when it is set properly
SetValue(name) ==
    CASE name \in {"DB_HOST", "DB2_HOST"} -> "52.211.123.34"
      [] name \in {"DB_PORT", "DB2_PORT"} -> "25010"
      [] name \in {"DB_NAME", "DB2_DATABASE"} -> "IEMASTER"
      [] name \in {"DB_USERNAME", "DB2_USERNAME"} -> "test_user"
      [] name \in {"DB_PASSWORD", "DB2_PASSWORD"} -> "test_password"
      [] OTHER -> "db2+ibm_db"

\* what a variable from_env reads can be: unset, empty or set; the port may
\* also be set to a text that is no number
EnvValues(name) ==
    {None, "", SetValue(name)} \cup (IF name = "DB_PORT" THEN {"port"} ELSE {})

\* the variables the docstring names: all set; or one of them unset, or
\* empty, and the others set; or none set
DocumentedSettings ==
    { [n \in DocumentedNames |-> SetValue(n)], [n \in DocumentedNames |-> None] }
    \cup
    { [n \in DocumentedNames |-> IF n = m THEN v ELSE SetValue(n)] :
          m \in DocumentedNames, v \in {None, ""} }

\* the environments from_env is called in
ToolEnvironments ==
    { [DB_HOST |-> h, DB_PORT |-> p, DB_NAME |-> d, DB_USERNAME |-> u,
       DB_PASSWORD |-> w, DB2_HOST |-> doc["DB2_HOST"], DB2_PORT |-> doc["DB2_PORT"],
       DB2_DATABASE |-> doc["DB2_DATABASE"], DB2_USERNAME |-> doc["DB2_USERNAME"],
       DB2_PASSWORD |-> doc["DB2_PASSWORD"], DB2_DRIVER |-> None] :
        h \in EnvValues("DB_HOST"), p \in EnvValues("DB_PORT"),
        d \in EnvValues("DB_NAME"), u \in EnvValues("DB_USERNAME"),
        w \in EnvValues("DB_PASSWORD"), doc \in DocumentedSettings }

\* must_get(name): the value, or ValueError when it is unset or empty
must_get(env, name) ==
    IF env[name] = None \/ env[name] = ""
    THEN [raised |-> TRUE, value |-> "",
          error |-> "Missing required env var: " \o name]
    ELSE [raised |-> FALSE, value |-> env[name], error |-> ""]

NoConfig ==
    [host |-> "", port |-> 0, database |-> "", username |-> "", password |-> "",
     driver |-> ""]

\* DB2Config.from_env: the arguments of DB2Config(...) are evaluated in
\* order, the first failing one raises
from_env(env) ==
    LET host == must_get(env, "DB_HOST")
        port == must_get(env, "DB_PORT")
        database == must_get(env, "DB_NAME")
        username == must_get(env, "DB_USERNAME")
        password == must_get(env, "DB_PASSWORD")
        failure(msg) == [raised |-> TRUE, error |-> msg, config |-> NoConfig]
    IN  IF host.raised THEN failure(host.error)
        ELSE IF port.raised THEN failure(port.error)
        ELSE IF int(port.value).raised
        THEN failure("invalid literal for int() with base 10")
        ELSE IF database.raised THEN failure(database.error)
        ELSE IF username.raised THEN failure(username.error)
        ELSE IF password.raised THEN failure(password.error)
        ELSE [raised |-> FALSE, error |-> "",
              config |-> [host |-> host.value, port |-> int(port.value).value,
                          database |-> database.value, username |-> username.value,
                          password |-> password.value,
                          driver |-> getenv(env, "DB2_DRIVER", "db2+ibm_db")]]

\* DB2Config.connection_string
connection_string(config) ==
    config.driver \o "://" \o config.username \o ":" \o config.password \o "@"
        \o config.host \o ":" \o ToString(config.port) \o "/" \o config.database

\* DB2Connector(): config is None, so the configuration comes from the
\* environment; create_engine only parses the URL and opens nothing
sa__init__(env) ==
    LET cfg == from_env(env)
    IN  IF cfg.raised
        THEN [raised |-> TRUE, error |-> cfg.error, config |-> NoConfig, url |-> ""]
        ELSE [raised |-> FALSE, error |-> "", config |-> cfg.config,
              url |-> connection_string(cfg.config)]

\* test_connection of this connector: True after connect and probe, and the
\* exception of either step goes to the caller
sa_test_connection(connectOk, probeOk) ==
    [raised |-> ~(connectOk /\ probeOk), value |-> connectOk /\ probeOk]

\* the one condition the callers of this model filter by
Matches(cond, row) == cond = "ID > 1" /\ row > 1

\* the store's reading of a query text:
\*   SELECT ... FROM ... [ WHERE cond] [ FETCH FIRST n ROWS ONLY]
\* with the WHERE clause before the FETCH FIRST clause
ParseQuery(sql) ==
    LET w == Find(" WHERE ", sql)
        f == Find(" FETCH FIRST ", sql)
        tail == " ROWS ONLY"
        stop == IF f > 0 THEN f - 1 ELSE Len(sql)
        count == SubSeq(sql, f + Len(" FETCH FIRST "), Len(sql) - Len(tail))
    IN  [wellFormed |->
            /\ SubSeq(sql, 1, Len("SELECT ")) = "SELECT "
            /\ Find(" FROM ", sql) > 0
            /\ w > 0 => Find(" FROM ", sql) < w
            /\ (w > 0 /\ f > 0) => w < f
            /\ f > 0 => /\ SubSeq(sql, Len(sql) - Len(tail) + 1, Len(sql)) = tail
                        /\ IsDigits(count),
         hasWhere |-> w > 0,
         cond |-> IF w > 0 THEN SubSeq(sql, w + Len(" WHERE "), stop) ELSE "",
         hasLimit |-> f > 0,
         limit |-> IF f > 0 /\ IsDigits(count) THEN DecimalValue(count) ELSE 0]

\* the store running a query on a table whose rows are stored: it may be
\* unreachable or reject the text; else the rows that match, cut at the limit
RunQuery(sql, stored, ok) ==
    LET q == ParseQuery(sql)
        matching == IF q.hasWhere
                    THEN SelectSeq(stored, LAMBDA row : Matches(q.cond, row))
                    ELSE stored
        rejected == ~ok \/ ~q.wellFormed \/ (q.hasWhere /\ q.cond # "ID > 1")
    IN  [raised |-> rejected,
         rows |-> IF rejected THEN <<>>
                  ELSE IF q.hasLimit /\ q.limit < Len(matching)
                  THEN SubSeq(matching, 1, q.limit) ELSE matching]

\* the chunks pd.read_sql(..., chunksize=size) yields for a result: for an
\* empty result none, or one empty chunk, as the installed pandas has it
Chunks(rows, size, emptyChunk) ==
    IF Len(rows) = 0
    THEN IF emptyChunk THEN << <<>> >> ELSE <<>>
    ELSE [i \in 1..((Len(rows) + size - 1) \div size) |->
              SubSeq(rows, (i - 1) * size + 1,
                     IF i * size < Len(rows) THEN i * size ELSE Len(rows))]

\* `if where:` and `if chunksize:`: None, "" and 0 are falsy
TruthyText(txt) == txt # None /\ txt # ""
TruthyInt(opt) == opt # <<>> /\ opt[1] # 0

\* the query text of read_table and save_table_as_parquet
BuildQuery(col_sql, schema, table, where, limit) ==
    ("SELECT " \o col_sql \o " FROM " \o schema \o "." \o table)
        \o (IF TruthyText(where) THEN " WHERE " \o where ELSE "")
        \o (IF limit # <<>>
            THEN " FETCH FIRST " \o ToString(limit[1]) \o " ROWS ONLY" ELSE "")

\* a read_table that tests `if limit:` instead of `if limit is not None:`
read_table_TruthyLimit(schema, table, limit, columns, where, stored, ok) ==
    LET col_sql == IF Len(columns) > 0 THEN Join(columns) ELSE "*"
        sql == BuildQuery(col_sql, schema, table, where,
                          IF TruthyInt(limit) THEN limit ELSE <<>>)
        rs == RunQuery(sql, stored, ok)
    IN  [raised |-> rs.raised, rows |-> rs.rows, sql |-> sql]

\* read_table(schema, table, limit=, columns=, where=)
read_table(schema, table, limit, columns, where, stored, ok) ==
    LET col_sql == IF Len(columns) > 0 THEN Join(columns) ELSE "*"
        sql == BuildQuery(col_sql, schema, table, where, limit)
        rs == RunQuery(sql, stored, ok)
    IN  [raised |-> rs.raised, rows |-> rs.rows, sql |-> sql]

\* a chunked export that never advances its part counter
save_query_as_parquet_NoIncrement(query, parquet_path, chunksize, stored, ok, emptyChunk, failAfter) ==
    LET rs == RunQuery(query, stored, ok)
        base == splitext(parquet_path)[1]
        chunks == IF TruthyInt(chunksize) /\ ~rs.raised
                  THEN Chunks(rs.rows, chunksize[1], emptyChunk) ELSE <<>>
        done == IF failAfter # <<>> /\ failAfter[1] < Len(chunks)
                THEN failAfter[1] ELSE Len(chunks)
        broke == rs.raised \/ done < Len(chunks)
    IN  IF ~TruthyInt(chunksize)
        THEN [raised |-> rs.raised,
              written |-> IF rs.raised THEN <<>> ELSE <<parquet_path>>,
              returned |-> IF rs.raised THEN None ELSE parquet_path,
              chunks |-> Len(chunks)]
        ELSE [raised |-> broke,
              written |-> [i \in 1..done |-> base \o "_part" \o Pad3(0) \o ".parquet"],
              returned |-> IF broke THEN None ELSE base \o "_part*.parquet",
              chunks |-> Len(chunks)]

\* save_query_as_parquet(query, parquet_path, chunksize=): written lists the
\* files written, in order.  What the store does: the rows it holds, whether
\* it answers, whether an empty result comes as one empty chunk, and after
\* how many chunks (if at all) the connection breaks
save_query_as_parquet(query, parquet_path, chunksize, stored, ok, emptyChunk, failAfter) ==
    LET rs == RunQuery(query, stored, ok)
        base == splitext(parquet_path)[1]
        chunks == IF TruthyInt(chunksize) /\ ~rs.raised
                  THEN Chunks(rs.rows, chunksize[1], emptyChunk) ELSE <<>>
        done == IF failAfter # <<>> /\ failAfter[1] < Len(chunks)
                THEN failAfter[1] ELSE Len(chunks)
        broke == rs.raised \/ done < Len(chunks)
    IN  IF ~TruthyInt(chunksize)
        THEN [raised |-> rs.raised,
              written |-> IF rs.raised THEN <<>> ELSE <<parquet_path>>,
              returned |-> IF rs.raised THEN None ELSE parquet_path,
              chunks |-> Len(chunks)]
        ELSE [raised |-> broke,
              written |-> [i \in 1..done |-> base \o "_part" \o Pad3(i - 1) \o ".parquet"],
              returned |-> IF broke THEN None ELSE base \o "_part*.parquet",
              chunks |-> Len(chunks)]

\* save_table_as_parquet: SELECT * with the same clauses, then the export
save_table_as_parquet(schema, table, parquet_path, limit, where, chunksize, stored, ok, emptyChunk, failAfter) ==
    save_query_as_parquet(BuildQuery("*", schema, table, where, limit),
                          parquet_path, chunksize, stored, ok, emptyChunk, failAfter)

----------------------------------------------------------------------------
(* The state machine of the SQLAlchemy connector: constructed in InitTools  *)
(* from the environment, then its callers invoke its methods one at a time. *)
(* The connector holds nothing but its configuration; tool.last is the      *)
(* observation of the last call.                                            *)

ToolLimits == {<<>>} \cup {<<n>> : n \in 0..MaxLimit}
ToolChunkSizes == {<<>>} \cup {<<n>> : n \in 0..MaxChunk}
ToolWheres == {None, "", "ID > 1"}
ToolColumns == {<<>>, <<"ID">>, <<"ID", "NAME">>}
ParquetPaths == {"out/flights.parquet", "flights"}
ToolQueries ==
    {"SELECT * FROM IEMASTER.FLIGHTS",
     "SELECT ID FROM IEMASTER.FLIGHTS WHERE ID > 1 FETCH FIRST 1 ROWS ONLY"}

\* the rows of the table the queries read
StoredRows == {PyRange(1, n + 1) : n \in 0..MaxTableRows}

\* when the connection of a chunked read breaks: never, or after one chunk
BreakPoints == {<<>>, <<1>>}

\* the other programs stay as they are while this one runs
IdleSelf ==
    [username |-> None, password |-> None, host |-> None, port |-> None,
     database |-> None, use_mock |-> FALSE, connection |-> NoConnection]

ConnectorOff ==
    /\ self = IdleSelf
    /\ rng = 0
    /\ now = 0
    /\ handles = 0
    /\ ret = [op |-> "none"]
    /\ hist = [failed |-> FALSE]
    /\ watch = NoWatch

InitTools ==
    /\ ConnectorOff
    /\ dash = NoDash
    /\ local = NoLocal
    /\ \E env \in ToolEnvironments :
           LET out == sa__init__(env)
           IN  tool = [phase |-> IF out.raised THEN "failed" ELSE "ready",
                       config |-> out.config,
                       last |-> [op |-> "__init__", env |-> env, raised |-> out.raised,
                                 error |-> out.error, url |-> out.url]]

\* a method of the constructed connector returns or raises
ToolReturns(observation) ==
    /\ tool.phase = "ready"
    /\ tool' = [tool EXCEPT !.last = observation]
    /\ UNCHANGED <<self, rng, now, handles, ret, hist, watch, dash, local>>

\* the calls of test_connection: what the store does at each step, and the
\* outcome
TestConnectionCalls ==
    { LET out == sa_test_connection(c, p)
      IN  [op |-> "test_connection", steps |-> Steps(c, p),
           raised |-> out.raised, value |-> out.value] :
        c \in BOOLEAN, p \in BOOLEAN }

\* the calls of read_table: the arguments, what the store holds and whether
\* it answers, and the outcome
ReadTableCalls ==
    { LET out == read_table("IEMASTER", "FLIGHTS", lim, cols, cond, held, answers)
      IN  [op |-> "read_table", limit |-> lim, columns |-> cols,
           where |-> cond, stored |-> held, ok |-> answers,
           sql |-> out.sql, raised |-> out.raised, rows |-> out.rows] :
        lim \in ToolLimits, cols \in ToolColumns, cond \in ToolWheres,
        held \in StoredRows, answers \in BOOLEAN }

\* the calls of save_query_as_parquet
SaveQueryCalls ==
    { LET out == save_query_as_parquet(q, path, size, held, answers, e, f)
      IN  [op |-> "save_query_as_parquet", query |-> q,
           parquet_path |-> path, chunksize |-> size,
           raised |-> out.raised, written |-> out.written,
           returned |-> out.returned, chunks |-> out.chunks] :
        q \in ToolQueries, path \in ParquetPaths, size \in ToolChunkSizes,
        held \in StoredRows, answers \in BOOLEAN, e \in BOOLEAN, f \in BreakPoints }

\* the calls of save_table_as_parquet
SaveTableCalls ==
    { LET out == save_table_as_parquet("IEMASTER", "FLIGHTS", path, lim, cond,
                                       size, held, answers, e, f)
      IN  [op |-> "save_table_as_parquet",
           query |-> BuildQuery("*", "IEMASTER", "FLIGHTS", cond, lim),
           parquet_path |-> path, chunksize |-> size,
           raised |-> out.raised, written |-> out.written,
           returned |-> out.returned, chunks |-> out.chunks] :
        lim \in ToolLimits, cond \in ToolWheres, path \in ParquetPaths,
        size \in ToolChunkSizes, held \in StoredRows, answers \in BOOLEAN,
        e \in BOOLEAN, f \in BreakPoints }

Call_sa_test_connection == \E call \in TestConnectionCalls : ToolReturns(call)

Call_read_table == \E call \in ReadTableCalls : ToolReturns(call)

Call_save_query_as_parquet == \E call \in SaveQueryCalls : ToolReturns(call)

Call_save_table_as_parquet == \E call \in SaveTableCalls : ToolReturns(call)

NextTools ==
    \/ Call_sa_test_connection
    \/ Call_read_table
    \/ Call_save_query_as_parquet
    \/ Call_save_table_as_parquet

SpecTools == InitTools /\ [][NextTools]_vars

----------------------------------------------------------------------------
(* The state machine of the dashboard script.  A session picks its          *)
(* connector once; every selection of a page reruns the script, which       *)
(* renders the sections of the page in order and stops at the first         *)
(* exception.  The parquet files do not change during a session, so the     *)
(* cached wrappers return what the connector returns.                       *)

\* the tables LocalConnector reads from datasets/
DatasetTables == {"TICKETS", "FLIGHTS", "AIRPLANES", "PASSENGERS", "ROUTES", "EMPLOYEE"}

\* a table of one row with the given columns
OneRow(columns) ==
    [columns |-> columns, data |-> [c \in Range(columns) |-> <<1>>]]

\* the columns of the files that LocalConnector hands on as they are
FileColumns(table) ==
    CASE table = "PASSENGERS" -> <<"gender", "avg_age">>
      [] table = "ROUTES" ->
            <<"origin_lat", "origin_lon", "flight_count", "passenger_count", "origin",
              "destination">>
      [] table = "EMPLOYEE" -> <<"deptname", "headcount", "total_salary", "avg_salary">>
      [] OTHER -> <<>>

\* the methods of LocalConnector: an empty frame when a file they read is
\* absent, else the columns they build
LocalTable(m, present) ==
    CASE m = "get_total_revenue" ->
            IF "TICKETS" \in present
            THEN OneRow(<<"total_revenue", "TOTAL_REVENUE">>) ELSE EmptyFrame
      [] m = "get_revenue_by_route" ->
            IF "TICKETS" \in present
            THEN OneRow(<<"route_code", "total_revenue", "ticket_count", "origin",
                          "destination">>)
            ELSE EmptyFrame
      [] m = "get_financial_trends" ->
            IF "TICKETS" \in present
            THEN OneRow(<<"flight_date", "daily_revenue">>) ELSE EmptyFrame
      [] m = "get_load_factor" ->
            IF {"TICKETS", "FLIGHTS", "AIRPLANES"} \subseteq present
            THEN OneRow(<<"flight_id", "load_factor">>) ELSE EmptyFrame
      [] m = "get_fleet_utilization" ->
            IF "FLIGHTS" \in present
            THEN OneRow(<<"aircraft_registration", "total_flights">>) ELSE EmptyFrame
      [] m = "get_passenger_demographics" ->
            IF "PASSENGERS" \in present
            THEN OneRow(FileColumns("PASSENGERS") \o <<"passenger_count">>)
            ELSE EmptyFrame
      [] m = "get_route_network" ->
            IF "ROUTES" \in present THEN OneRow(FileColumns("ROUTES")) ELSE EmptyFrame
      [] m = "get_hr_metrics" ->
            IF "EMPLOYEE" \in present THEN OneRow(FileColumns("EMPLOYEE")) ELSE EmptyFrame
      [] OTHER -> EmptyFrame

\* a cached wrapper calls the method on the session's connector: the class
\* imported from connector has none of these methods
Fetch(kind, present, m) ==
    IF kind = "local"
    THEN [raised |-> FALSE, table |-> LocalTable(m, present)]
    ELSE [raised |-> TRUE, table |-> EmptyFrame]

\* the sections of each page, in the order of the script
Pages ==
    [ExecutiveSummary |->
        <<"ExecTotalRevenue", "ExecLoadFactor", "ExecActiveFleet", "ExecTotalPassengers",
          "ExecRevenueTrends">>,
     FinancialPerformance |->
        <<"FinTotalRevenue", "FinTopRoutes", "FinRevenueByOrigin",
          "FinRouteProfitability", "FinTicketAnalysis">>,
     FleetOperations |->
        <<"FleetUtilization", "FleetFuelEfficiency", "FleetLoadFactor",
          "FleetMaintenance">>,
     RouteNetwork |-> <<"RouteHeatmap", "RouteLoadFactor", "RouteDemographics">>,
     HRAnalytics |-> <<"HrDepartments">>]

PageNames == DOMAIN Pages

\* the sections written inside the `if not total_rev_df.empty:` of the
\* Revenue Overview tab
InsideTotalRevenue == {"FinTopRoutes", "FinRevenueByOrigin"}

NoView ==
    [section |-> "none", fetched |-> FALSE, table |-> EmptyFrame, raised |-> FALSE,
     shown |-> "nothing", selected |-> {}, missing |-> {}]

\* the script reaches the section name of the session d
RunSection(d, name) ==
    LET sec == Sections[name]
        got == Fetch(d.kind, d.present, sec.method)
        outer == Fetch(d.kind, d.present, "get_total_revenue")
        view == RenderSection(sec, got.table)
    IN  IF name \in InsideTotalRevenue /\ empty(outer.table)
        THEN [NoView EXCEPT !.section = name]
        ELSE IF got.raised
        THEN [NoView EXCEPT !.section = name, !.raised = TRUE]
        ELSE [section |-> name, fetched |-> TRUE, table |-> got.table,
              raised |-> view.raised, shown |-> view.shown,
              selected |-> view.selected, missing |-> view.missing]

\* the values of the environment variable USE_LOCAL: unset, spellings the
\* script takes for true, and others
UseLocalValues == {None, "1", "TRUE", "Yes", "0", "false"}

\* os.getenv(name, default), value being None for a name that is not set
GetEnv(value, default) == IF value = None THEN default ELSE value

\* USE_LOCAL = os.getenv("USE_LOCAL", "1").lower() in ("1", "true", "yes")
USE_LOCAL(value) == Lower(GetEnv(value, "1")) \in {"1", "true", "yes"}

\* the global DB2Connector after the import and the `if USE_LOCAL:`
ImportedClass(value, importOk) ==
    IF USE_LOCAL(value) THEN None ELSE IF importOk THEN "DB2Connector" ELSE None

\* a variant that picks the connector again on every run of the script
SessionConnector_Repick(held, value, importOk, constructOk) ==
    IF ImportedClass(value, importOk) = None THEN "local"
    ELSE IF constructOk THEN "sqlalchemy"
    ELSE "local"

\* st.session_state.connector after the `if "connector" not in
\* st.session_state:` block; held is what the session holds before it
SessionConnector(held, value, importOk, constructOk) ==
    IF held # "none" THEN held
    ELSE IF ImportedClass(value, importOk) = None THEN "local"
    ELSE IF constructOk THEN "sqlalchemy"
    ELSE "local"

\* a browser session opens: st.session_state is empty, the script has not
\* run yet
InitDash ==
    /\ ConnectorOff
    /\ tool = NoTool
    /\ local = NoLocal
    /\ \E value \in UseLocalValues, importOk \in BOOLEAN,
          present \in SUBSET DatasetTables :
           dash = [phase |-> "idle", kind |-> "none", env |-> value,
                   importOk |-> importOk, constructOk |-> FALSE, present |-> present,
                   page |-> "none", pos |-> 0, view |-> NoView]

\* the script runs from the top: when the session opens, on the first page
\* of the sidebar, and whenever the user selects a page; the session keeps
\* the connector it has
SelectPage ==
    \E p \in PageNames, constructOk \in BOOLEAN :
        /\ dash.phase \in {"idle", "done", "failed"}
        /\ dash.kind = "none" => p = "ExecutiveSummary"
        /\ dash' = [dash EXCEPT
                        !.kind = SessionConnector(dash.kind, dash.env, dash.importOk,
                                                  constructOk),
                        !.constructOk = IF dash.kind = "none" THEN constructOk ELSE @,
                        !.phase = "rendering", !.page = p, !.pos = 1, !.view = NoView]
        /\ UNCHANGED <<self, rng, now, handles, ret, hist, watch, tool, local>>

\* the script runs its next section; an exception ends the run
RenderNext ==
    /\ dash.phase = "rendering"
    /\ dash.pos <= Len(Pages[dash.page])
    /\ LET view == RunSection(dash, Pages[dash.page][dash.pos])
       IN  dash' = [dash EXCEPT !.view = view,
                                !.pos = IF view.raised THEN @ ELSE @ + 1,
                                !.phase = IF view.raised THEN "failed" ELSE @]
    /\ UNCHANGED <<self, rng, now, handles, ret, hist, watch, tool, local>>

\* the script reaches its footer
FinishPage ==
    /\ dash.phase = "rendering"
    /\ dash.pos > Len(Pages[dash.page])
    /\ dash' = [dash EXCEPT !.phase = "done"]
    /\ UNCHANGED <<self, rng, now, handles, ret, hist, watch, tool, local>>

NextDash ==
    \/ SelectPage
    \/ RenderNext
    \/ FinishPage

SpecDash == InitDash /\ [][NextDash]_vars

----------------------------------------------------------------------------
(* The LocalConnector of dashboard.py.  Its tables may carry a column name  *)
(* twice, so a table is here a record                                       *)
(*     [columns |-> sequence of column names,                               *)
(*      cells   |-> sequence: the cells of the i-th column, top to bottom]. *)
(* A cell read from a parquet file is the number 10 * f + r for row r of    *)
(* the f-th path of the model; a cell pandas fills in is NaN.               *)

NaN == 0

\* pd.DataFrame()
NoFrame == [columns |-> <<>>, cells |-> <<>>]

\* len(df)
FrameRows(df) == IF Len(df.columns) = 0 THEN 0 ELSE Len(df.cells[1])

\* df.empty
FrameEmpty(df) == Len(df.columns) = 0 \/ FrameRows(df) = 0

\* a variant of the table in which the name the last loop assigns is a name
\* the flight loop looks for
ColumnGroups_Chained ==
    <<[canonical |-> "total_revenue",
       variants |-> <<"total_amount", "total_revenue", "amount">>],
      [canonical |-> "route_code", variants |-> <<"route_code", "routecode", "route">>],
      [canonical |-> "passenger_count",
       variants |-> <<"passenger_count", "pax_count", "pax">>],
      [canonical |-> "flight_id", variants |-> <<"flight_id", "flightid", "flight">>],
      [canonical |-> "aircraft_registration",
       variants |-> <<"aircraft_registration", "registration", "airplane">>],
      [canonical |-> "capacity",
       variants |-> <<"capacity", "total_seats", "seats", "seat_capacity">>],
      [canonical |-> "flight_date",
       variants |-> <<"flight_date", "date", "departure_date">>],
      [canonical |-> "flight", variants |-> <<"passenger_id", "id", "pid">>]>>

\* the tuples _normalize_columns loops over, in the order of its loops, each
\* with the name its loop assigns
ColumnGroups ==
    <<[canonical |-> "total_revenue",
       variants |-> <<"total_amount", "total_revenue", "amount">>],
      [canonical |-> "route_code", variants |-> <<"route_code", "routecode", "route">>],
      [canonical |-> "passenger_count",
       variants |-> <<"passenger_count", "pax_count", "pax">>],
      [canonical |-> "flight_id", variants |-> <<"flight_id", "flightid", "flight">>],
      [canonical |-> "aircraft_registration",
       variants |-> <<"aircraft_registration", "registration", "airplane">>],
      [canonical |-> "capacity",
       variants |-> <<"capacity", "total_seats", "seats", "seat_capacity">>],
      [canonical |-> "flight_date",
       variants |-> <<"flight_date", "date", "departure_date">>],
      [canonical |-> "passenger_id", variants |-> <<"passenger_id", "id", "pid">>]>>

\* lower_to_col = {c.lower(): c for c in df.columns}: a later column
\* replaces an earlier one of the same lower-cased name
LowerToCol(columns) ==
    LET lowered == [i \in DOMAIN columns |-> Lower(columns[i])]
    IN  [l \in Range(lowered) |->
            columns[CHOOSE i \in DOMAIN columns :
                        /\ lowered[i] = l
                        /\ \A j \in DOMAIN columns : lowered[j] = l => j <= i]]

\* the colmap the eight loops build: the tests read df.columns, which no
\* loop changes
ColMap(columns) ==
    LET lower_to_col == LowerToCol(columns)
        lowered == {Lower(c) : c \in Range(columns)}
        hits == {gk \in UNION {{<<g, k>> : k \in DOMAIN ColumnGroups[g].variants} :
                                g \in DOMAIN ColumnGroups} :
                    /\ ColumnGroups[gk[1]].variants[gk[2]] \in DOMAIN lower_to_col
                    /\ ColumnGroups[gk[1]].canonical \notin lowered}
        keyOf(gk) == lower_to_col[ColumnGroups[gk[1]].variants[gk[2]]]
    IN  [c \in {keyOf(gk) : gk \in hits} |->
            LET last == CHOOSE gk \in hits :
                            /\ keyOf(gk) = c
                            /\ \A other \in hits :
                                   keyOf(other) = c
                                       => \/ other[1] < gk[1]
                                          \/ other[1] = gk[1] /\ other[2] <= gk[2]
            IN  ColumnGroups[last[1]].canonical]

\* df.rename(columns=colmap): every column whose name is a key gets the
\* mapped name
Rename(df, colmap) ==
    [df EXCEPT !.columns = [i \in DOMAIN df.columns |->
                               IF df.columns[i] \in DOMAIN colmap
                               THEN colmap[df.columns[i]] ELSE df.columns[i]]]

_normalize_columns(table, df) ==
    IF FrameEmpty(df) THEN df
    ELSE LET colmap == ColMap(df.columns)
         IN  IF DOMAIN colmap # {} THEN Rename(df, colmap) ELSE df

\* the column names of the model's tables: variants of one canonical name,
\* upper-case spellings, a canonical name, and a name no loop knows
NormalizeNames ==
    {"total_amount", "amount", "TOTAL_AMOUNT", "total_revenue", "seats", "total_seats",
     "flight", "FLIGHT_ID", "id", "name"}

MaxColumns == 3

\* the lists of at most MaxColumns pairwise distinct names
ColumnLists ==
    {columns \in UNION {[1..n -> NormalizeNames] : n \in 0..MaxColumns} :
        \A i, j \in DOMAIN columns : columns[i] = columns[j] => i = j}

\* a table of the given columns and number of rows, as read from path f
FileFrame(columns, rows, f) ==
    [columns |-> columns,
     cells |-> [i \in DOMAIN columns |-> [r \in 1..rows |-> 10 * f + r]]]

\* a parquet file that pd.read_parquet cannot read, and one it reads as frame
Unreadable == [readable |-> FALSE]
Stored(frame) == [readable |-> TRUE, frame |-> frame]

\* a directory tree: the folders that exist and the content of each file
NoFiles == [dirs |-> {}, files |-> <<>>]

\* Path.parent
Parent(path) ==
    LET slash == RFind("/", path)
    IN  IF slash = 0 THEN "" ELSE SubSeq(path, 1, slash - 1)

\* table_dir.glob("*.parquet"): the files of the folder whose name ends so
Glob(fs, dir) ==
    {path \in DOMAIN fs.files : Parent(path) = dir /\ EndsWith(path, ".parquet")}

\* the characters of the model's paths in the order of their code points
CodePoints == "./0123456789ABCDEFGHIJKLMNOPQRSTUVWXYZ_abcdefghijklmnopqrstuvwxyz"

\* a < b for two texts
RECURSIVE TextBefore(_, _)
TextBefore(a, b) ==
    IF Len(a) = 0 THEN Len(b) > 0
    ELSE IF Len(b) = 0 THEN FALSE
    ELSE IF Char(a, 1) = Char(b, 1)
    THEN TextBefore(SubSeq(a, 2, Len(a)), SubSeq(b, 2, Len(b)))
    ELSE Find(Char(a, 1), CodePoints) < Find(Char(b, 1), CodePoints)

\* sorted(paths)
RECURSIVE Sorted(_)
Sorted(paths) ==
    IF paths = {} THEN <<>>
    ELSE LET first == CHOOSE path \in paths :
                          \A other \in paths \ {path} : TextBefore(path, other)
         IN  <<first>> \o Sorted(paths \ {first})

\* the columns of pd.concat(dfs): every name once, in the order it first
\* appears
RECURSIVE ConcatColumns(_)
ConcatColumns(dfs) ==
    IF Len(dfs) = 0 THEN <<>>
    ELSE LET before == ConcatColumns(SubSeq(dfs, 1, Len(dfs) - 1))
         IN  before \o SelectSeq(dfs[Len(dfs)].columns, LAMBDA c : c \notin Range(before))

\* the cells of the column named name in pd.concat(dfs): NaN for the rows of
\* a table that has no such column
RECURSIVE ConcatCells(_, _)
ConcatCells(dfs, name) ==
    IF Len(dfs) = 0 THEN <<>>
    ELSE LET df == dfs[Len(dfs)]
             here == IF name \in Range(df.columns)
                     THEN df.cells[CHOOSE i \in DOMAIN df.columns : df.columns[i] = name]
                     ELSE [r \in 1..FrameRows(df) |-> NaN]
         IN  ConcatCells(SubSeq(dfs, 1, Len(dfs) - 1), name) \o here

\* pd.concat(dfs, ignore_index=True)
Concat(dfs) ==
    LET columns == ConcatColumns(dfs)
    IN  [columns |-> columns,
         cells |-> [i \in DOMAIN columns |-> ConcatCells(dfs, columns[i])]]

\* a variant that reads the file named like the table whenever it exists
FilesOf_CandidateFirst(fs, data_dir, table) ==
    LET table_dir == data_dir \o "/" \o Lower(table)
        candidate == data_dir \o "/" \o Lower(table) \o ".parquet"
    IN  IF candidate \in DOMAIN fs.files THEN <<candidate>>
        ELSE IF table_dir \in fs.dirs THEN Sorted(Glob(fs, table_dir))
        ELSE <<>>

\* the files _read_table reads for a table: the parquet files of the folder
\* when the folder exists, else the file named like the table
FilesOf(fs, data_dir, table) ==
    LET table_dir == data_dir \o "/" \o Lower(table)
        candidate == data_dir \o "/" \o Lower(table) \o ".parquet"
    IN  IF table_dir \in fs.dirs THEN Sorted(Glob(fs, table_dir))
        ELSE IF candidate \in DOMAIN fs.files THEN <<candidate>>
        ELSE <<>>

_read_table(fs, data_dir, table) ==
    LET files == FilesOf(fs, data_dir, table)
        readable == SelectSeq(files, LAMBDA f : fs.files[f].readable)
        dfs == [i \in DOMAIN readable |-> fs.files[readable[i]].frame]
    IN  IF Len(files) = 0 THEN NoFrame
        ELSE IF Len(dfs) = 0 THEN NoFrame
        ELSE _normalize_columns(table, Concat(dfs))

\* next((c for c in columns if ...), None), hits being the columns that pass
\* the test
FirstColumn(hits) == IF Len(hits) = 0 THEN None ELSE hits[1]

\* the amount column the revenue methods look for
AmountColumn(columns) ==
    FirstColumn(SelectSeq(columns,
                          LAMBDA c : Lower(c) \in {"total_amount", "total_revenue"}))

\* what a metric method hands to its caller: pd.DataFrame(), a table it has
\* built, the table _read_table gave it, or an exception
ReturnsEmpty == [raised |-> FALSE, error |-> None, src |-> "empty", columns |-> <<>>]
ReturnsBuilt(columns) ==
    [raised |-> FALSE, error |-> None, src |-> "built", columns |-> columns]
ReturnsRead(df) ==
    [raised |-> FALSE, error |-> None,
     src |-> IF FrameEmpty(df) THEN "empty" ELSE "read", columns |-> df.columns]
Raises(error) == [raised |-> TRUE, error |-> error, src |-> "raise", columns |-> <<>>]

local_get_total_revenue(fs, data_dir) ==
    LET tickets == _read_table(fs, data_dir, "TICKETS")
        col == AmountColumn(tickets.columns)
    IN  IF FrameEmpty(tickets) THEN ReturnsEmpty
        ELSE IF col = None THEN ReturnsEmpty
        ELSE ReturnsBuilt(<<"total_revenue", "TOTAL_REVENUE">>)

local_get_revenue_by_route(fs, data_dir) ==
    LET tickets == _read_table(fs, data_dir, "TICKETS")
        route_col == FirstColumn(SelectSeq(tickets.columns,
                                           LAMBDA c : Lower(c) = "route_code"))
        amt_col == AmountColumn(tickets.columns)
        grouped == <<route_col, "total_revenue", "ticket_count">>
    IN  IF FrameEmpty(tickets) THEN ReturnsEmpty
        ELSE IF route_col = None \/ amt_col = None THEN ReturnsEmpty
        ELSE IF Lower(grouped[1]) = "route_code"
        THEN ReturnsBuilt(grouped \o <<"origin", "destination">>)
        ELSE ReturnsBuilt(grouped)

local_get_financial_trends(fs, data_dir) ==
    LET tickets == _read_table(fs, data_dir, "TICKETS")
        date_col == FirstColumn(SelectSeq(tickets.columns,
                                          LAMBDA c : Find("date", Lower(c)) > 0))
        amt_col == AmountColumn(tickets.columns)
        \* daily.columns = ["flight_date" if "flight" not in c.lower() else c ...]
        relabel(c) == IF Find("flight", Lower(c)) = 0 THEN "flight_date" ELSE c
        first == relabel(date_col)
        second == relabel(amt_col)
        \* rename(columns={columns[0]: "flight_date", columns[1]: "daily_revenue"}):
        \* the second entry replaces the first when the two keys are equal
        renamed(c) == IF c = second THEN "daily_revenue"
                      ELSE IF c = first THEN "flight_date" ELSE c
    IN  IF FrameEmpty(tickets) THEN ReturnsEmpty
        ELSE IF date_col = None \/ amt_col = None THEN ReturnsEmpty
        ELSE ReturnsBuilt(<<renamed(first), renamed(second)>>)

\* left.merge(right, left_on=l, right_on=r, how="left"): the columns of the
\* result, a name of both sides other than a shared key gets _x and _y
MergeColumns(left, right, l, r) ==
    LET shared == (Range(left) \cap Range(right)) \ (IF l = r THEN {l} ELSE {})
        kept == IF l = r THEN SelectSeq(right, LAMBDA c : c # r) ELSE right
    IN  [i \in DOMAIN left |-> IF left[i] \in shared THEN left[i] \o "_x" ELSE left[i]]
            \o [i \in DOMAIN kept |-> IF kept[i] \in shared THEN kept[i] \o "_y" ELSE kept[i]]

\* the columns a tab may take for the capacity: a column named capacity or
\* total_seats, else the sum of the seat columns
SeatColumns(f) ==
    SelectSeq(f, LAMBDA c : Find("seat", Lower(c)) > 0 \/ EndsWith(Lower(c), "seats"))

CapacityColumn(f) ==
    LET found == FirstColumn(SelectSeq(f, LAMBDA c : Lower(c) \in {"capacity",
                                                                    "total_seats"}))
    IN  IF found = None /\ Len(SeatColumns(f)) > 0 THEN "capacity" ELSE found

\* get_load_factor from the capacity on, f being the columns of the joined
\* table
LoadFactorOf(f) ==
    LET cap_col == CapacityColumn(f)
        summed == IF cap_col \notin Range(f) THEN f \o <<cap_col>> ELSE f
    IN  IF cap_col = None THEN ReturnsEmpty
        ELSE IF "passengers_booked" \notin Range(summed) THEN Raises("KeyError")
        ELSE IF "flight_id" \notin Range(summed) THEN Raises("KeyError")
        ELSE ReturnsBuilt(<<"flight_id", "load_factor">>)

\* get_load_factor from the join with AIRPLANES on, f being the columns of
\* FLIGHTS joined with the ticket counts
LoadFactorJoined(f, airplanes) ==
    IF "airplane" \in Range(f)
    THEN IF "aircraft_registration" \notin Range(airplanes) THEN Raises("KeyError")
         ELSE LoadFactorOf(MergeColumns(f, airplanes, "airplane", "aircraft_registration"))
    ELSE LoadFactorOf(f)

local_get_load_factor(fs, data_dir) ==
    LET tickets == _read_table(fs, data_dir, "TICKETS")
        flights_df == _read_table(fs, data_dir, "FLIGHTS")
        airplanes == _read_table(fs, data_dir, "AIRPLANES")
        tcount == <<"flight_id", "passengers_booked">>
    IN  IF FrameEmpty(tickets) \/ FrameEmpty(flights_df) \/ FrameEmpty(airplanes)
        THEN ReturnsEmpty
        ELSE IF "flight_id" \notin Range(tickets.columns) THEN Raises("KeyError")
        ELSE IF "flight_id" \notin Range(flights_df.columns) THEN Raises("KeyError")
        ELSE LoadFactorJoined(
                 MergeColumns(flights_df.columns, tcount, "flight_id", "flight_id"),
                 airplanes.columns)

local_get_fleet_utilization(fs, data_dir) ==
    LET flights_df == _read_table(fs, data_dir, "FLIGHTS")
    IN  IF FrameEmpty(flights_df) THEN ReturnsEmpty
        ELSE IF "airplane" \in Range(flights_df.columns)
        THEN IF "flight_id" \notin Range(flights_df.columns) THEN Raises("KeyError")
             ELSE ReturnsBuilt(<<"aircraft_registration", "total_flights">>)
        ELSE ReturnsEmpty

local_get_passenger_demographics(fs, data_dir) ==
    LET pax == _read_table(fs, data_dir, "PASSENGERS")
        counted == IF \E c \in Range(pax.columns) : Lower(c) = "passenger_count"
                   THEN pax.columns ELSE pax.columns \o <<"passenger_count">>
    IN  IF FrameEmpty(pax) THEN ReturnsEmpty
        ELSE ReturnsBuilt([i \in DOMAIN counted |->
                              IF Lower(counted[i]) = "passenger_count"
                              THEN "passenger_count" ELSE counted[i]])

local_get_fuel_efficiency(fs, data_dir) == ReturnsEmpty

local_get_maintenance_alerts(fs, data_dir) == ReturnsEmpty

local_get_route_network(fs, data_dir) == ReturnsRead(_read_table(fs, data_dir, "ROUTES"))

local_get_hr_metrics(fs, data_dir) == ReturnsRead(_read_table(fs, data_dir, "EMPLOYEE"))

\* the metric methods of LocalConnector
LocalMethods ==
    {"get_total_revenue", "get_revenue_by_route", "get_financial_trends",
     "get_load_factor", "get_fleet_utilization", "get_passenger_demographics",
     "get_fuel_efficiency", "get_maintenance_alerts", "get_route_network",
     "get_hr_metrics"}

LocalCall(m, fs, data_dir) ==
    CASE m = "get_total_revenue" -> local_get_total_revenue(fs, data_dir)
      [] m = "get_revenue_by_route" -> local_get_revenue_by_route(fs, data_dir)
      [] m = "get_financial_trends" -> local_get_financial_trends(fs, data_dir)
      [] m = "get_load_factor" -> local_get_load_factor(fs, data_dir)
      [] m = "get_fleet_utilization" -> local_get_fleet_utilization(fs, data_dir)
      [] m = "get_passenger_demographics" ->
            local_get_passenger_demographics(fs, data_dir)
      [] m = "get_fuel_efficiency" -> local_get_fuel_efficiency(fs, data_dir)
      [] m = "get_maintenance_alerts" -> local_get_maintenance_alerts(fs, data_dir)
      [] m = "get_route_network" -> local_get_route_network(fs, data_dir)
      [] m = "get_hr_metrics" -> local_get_hr_metrics(fs, data_dir)

MaxFileRows == 2

\* the parquet paths of the table TICKETS: two parts of its folder and the
\* file named like the table
TicketsPaths ==
    <<"datasets/tickets/part0.parquet", "datasets/tickets/part1.parquet",
      "datasets/tickets.parquet">>

\* what the f-th of these paths may hold
TicketsFiles(f) ==
    {Unreadable}
        \cup {Stored(FileFrame(columns, rows, f)) :
                 columns \in {<<"FLIGHT_ID", "amount">>, <<"flight_id", "seats">>},
                 rows \in 0..MaxFileRows}

\* a path that holds nothing
Absent == [absent |-> TRUE]

\* the tree of the given folders in which paths[i] holds held[i]
Tree(dirs, paths, held) ==
    [dirs |-> dirs,
     files |-> [path \in {paths[i] : i \in {k \in DOMAIN paths : held[k] # Absent}} |->
                   held[CHOOSE i \in DOMAIN paths : paths[i] = path]]]

\* the trees that differ in the files of TICKETS: with or without the folder,
\* any of the three paths missing, unreadable or readable
TicketsTrees ==
    {Tree(IF tree[1] THEN {"datasets", "datasets/tickets"} ELSE {"datasets"},
          TicketsPaths, <<tree[2], tree[3], tree[4]>>) :
        tree \in {t \in BOOLEAN \X ({Absent} \cup TicketsFiles(1))
                          \X ({Absent} \cup TicketsFiles(2))
                          \X ({Absent} \cup TicketsFiles(3)) :
                     ~t[1] => (t[2] = Absent /\ t[3] = Absent)}}

\* the column names a file of each table may have: the names the methods
\* look for, and spellings of them
TableColumns ==
    [TICKETS |-> {<<"flight_id", "total_amount", "route_code", "flight_date">>,
                  <<"FLIGHT_ID", "TOTAL_AMOUNT">>},
     FLIGHTS |-> {<<"flight_id", "seats">>, <<"FLIGHT_ID", "SEATS">>,
                  <<"flight_id", "airplane", "aircraft_registration">>,
                  <<"FLIGHT_ID", "airplane", "aircraft_registration">>},
     AIRPLANES |-> {<<"registration", "total_seats">>, <<"model">>},
     PASSENGERS |-> {<<"gender", "PASSENGER_COUNT">>, <<"gender", "age">>},
     ROUTES |-> {<<"origin", "destination">>},
     EMPLOYEE |-> {<<"deptname", "salary">>}]

TableOrder == <<"TICKETS", "FLIGHTS", "AIRPLANES", "PASSENGERS", "ROUTES", "EMPLOYEE">>

\* what the one file of the t-th table may be
TableFiles(t) ==
    {Absent}
        \cup (IF TableOrder[t] = "TICKETS" THEN {Unreadable} ELSE {})
        \cup {Stored(FileFrame(columns, 1, t)) : columns \in TableColumns[TableOrder[t]]}

\* the trees that differ in the columns of the tables: each table has no
\* folder, or a folder of one file of one row; the file of TICKETS may be
\* unreadable
TableTrees ==
    {Tree({"datasets"} \cup {"datasets/" \o Lower(TableOrder[t]) :
                                t \in {k \in DOMAIN TableOrder : held[k] # Absent}},
          [t \in DOMAIN TableOrder |->
              "datasets/" \o Lower(TableOrder[t]) \o "/part0.parquet"],
          held) :
        held \in TableFiles(1) \X TableFiles(2) \X TableFiles(3) \X TableFiles(4)
                     \X TableFiles(5) \X TableFiles(6)}

\* what a run starts from: a table for _normalize_columns, or a datasets
\* directory for the methods that read it
Worlds ==
    {[given |-> "table", fs |-> NoFiles, df |-> FileFrame(columns, rows, 1)] :
        columns \in ColumnLists, rows \in 0..1}
        \cup {[given |-> "datasets", fs |-> fs, df |-> NoFrame] :
                 fs \in TicketsTrees \cup TableTrees}

\* a LocalConnector has been constructed on the datasets directory
InitLocal ==
    /\ ConnectorOff
    /\ tool = NoTool
    /\ dash = NoDash
    /\ \E world \in Worlds :
           local = [phase |-> "ready", data_dir |-> "datasets", given |-> world.given,
                    fs |-> world.fs, df |-> world.df, last |-> [op |-> "__init__"]]

\* a method of the connector returns or raises
LocalReturns(observation) ==
    /\ local.phase = "ready"
    /\ local' = [local EXCEPT !.last = observation]
    /\ UNCHANGED <<self, rng, now, handles, ret, hist, watch, tool, dash>>

\* _normalize_columns on the table at hand, and once more on its result
Call_local_normalize_columns ==
    /\ local.given = "table"
    /\ LET returned == _normalize_columns("TICKETS", local.df)
       IN  LocalReturns([op |-> "_normalize_columns", df |-> local.df,
                         returned |-> returned,
                         again |-> _normalize_columns("TICKETS", returned)])

Call_local_read_table ==
    /\ local.given = "datasets"
    /\ \E table \in DatasetTables :
           LocalReturns([op |-> "_read_table", table |-> table, raised |-> FALSE,
                         returned |-> _read_table(local.fs, local.data_dir, table)])

Call_local_metric ==
    /\ local.given = "datasets"
    /\ \E m \in LocalMethods :
           LocalReturns([op |-> m, out |-> LocalCall(m, local.fs, local.data_dir)])

NextLocal ==
    \/ Call_local_normalize_columns
    \/ Call_local_read_table
    \/ Call_local_metric

SpecLocal == InitLocal /\ [][NextLocal]_vars

----------------------------------------------------------------------------
(* Properties *)

\* the sample table the metric method of the last call serves at its call time
SampleOfLastCall == MockOf(ret.op, rng, ret.at).table

\* C1: every metric method, in any reachable connector state and under any
\* store behaviour, returns a table and never raises to its caller.
C1_MetricNeverRaises ==
    ret.op \in MetricMethods =>
        /\ ~ret.raised
        /\ ret.src \in {"live", "mock"}
        /\ \A c \in Range(ret.table.columns) : Len(ret.table.data[c]) = NRows(ret.table)

\* a metric method absorbed a failure of its own live attempt
C1_Witness ==
    /\ ret.op \in MetricMethods
    /\ ~ret.mockAtEntry
    /\ ret.failed
    /\ ~ret.raised

\* C2: when the live attempt of a metric method fails (no connection, or the
\* query raises), that same call sets use_mock and returns the metric's
\* hardcoded sample table.
C2_FailureDegrades ==
    (ret.op \in MetricMethods /\ ~ret.mockAtEntry /\ ret.failed) =>
        /\ ret.mockAtExit
        /\ self.use_mock
        /\ ret.src = "mock"
        /\ ret.table = SampleOfLastCall

C2_Witness ==
    /\ ret.op = "get_revenue_by_route"
    /\ ~ret.mockAtEntry
    /\ ret.failed
    /\ ret.readSql = 1
    /\ self.use_mock

\* C3 as stated: once any failure has occurred, every later call to a metric
\* method or to execute_query returns sample data.
C3_Original ==
    (ret.failedBefore /\ ret.op \in MetricMethods \cup {"execute_query"}) =>
        ret.src = "mock"

\* C3 amended: once any failure has occurred, every later metric method call
\* returns that metric's sample table; execute_query never returns sample
\* data, it returns its query's result or an empty table.
C3_Amended ==
    ret.failedBefore =>
        /\ ret.op \in MetricMethods => (ret.src = "mock" /\ ret.table = SampleOfLastCall)
        /\ ret.op = "execute_query" => ret.src \in {"live", "empty"}

C3_Witness ==
    /\ ret.failedBefore
    /\ ret.op \in MetricMethods
    /\ ret.src = "mock"
    /\ self.connection # NoConnection

\* C4 as stated: no call made while use_mock is True, metric method or
\* execute_query, issues a query or asks for a connection.
C4_Original ==
    (ret.mockAtEntry /\ ret.op \in MetricMethods \cup {"execute_query"}) =>
        (ret.readSql = 0 /\ ret.getConn = 0)

\* C4 amended: a metric method called while use_mock is True issues no query,
\* asks for no connection and makes no connect; execute_query called while
\* use_mock is True still asks for a connection and issues its query.
C4_Amended ==
    ret.mockAtEntry =>
        /\ ret.op \in MetricMethods =>
               (ret.readSql = 0 /\ ret.getConn = 0 /\ ret.connects = 0)
        /\ ret.op = "execute_query" => (ret.readSql = 1 /\ ret.getConn = 1)

C4_Witness ==
    /\ ret.mockAtEntry
    /\ ret.op \in MetricMethods
    /\ ret.src = "mock"
    /\ ret.readSql = 0

\* C5: degraded mode is a one-way latch: no step of any operation takes
\* use_mock from True back to False.
C5_OneWayLatch == [][self.use_mock => self'.use_mock]_vars

\* a connection test succeeded on a degraded connector, which stayed degraded
C5_Witness ==
    /\ ret.op = "test_connection"
    /\ ret.value
    /\ ret.mockAtEntry
    /\ self.use_mock

\* C6 as stated: after the constructor's connect failed, no later metric
\* method or execute_query call calls the driver's connect.
C6_Original ==
    (hist.ctorConnectFailed /\ ret.op \in MetricMethods \cup {"execute_query"}) =>
        ret.connects = 0

\* C6 amended: after the constructor's connect failed, no later metric method
\* call calls the driver's connect; execute_query calls it once whenever the
\* instance holds no connection handle, and not otherwise.
C6_Amended ==
    hist.ctorConnectFailed =>
        /\ ret.op \in MetricMethods => ret.connects = 0
        /\ ret.op = "execute_query" =>
               ret.connects = (IF ret.connAtEntry = NoConnection THEN 1 ELSE 0)

C6_Witness ==
    /\ hist.ctorConnectFailed
    /\ ret.op \in MetricMethods
    /\ ret.connAtEntry = NoConnection
    /\ ret.connects = 0

\* C7: a metric method call returns its sample table iff use_mock is True
\* when it returns, and a call that returns a live result leaves it False.
C7_FlagTellsSample ==
    (ret.op \in MetricMethods /\ ~ret.raised) =>
        /\ (ret.src = "mock") <=> self.use_mock
        /\ (ret.src = "mock") <=> ret.mockAtExit
        /\ ret.src = "live" => ~self.use_mock

C7_Witness ==
    /\ ret.op \in MetricMethods
    /\ ret.src = "live"
    /\ ~self.use_mock

\* C8: for every metric method the sample table served in fallback mode has
\* the same set of column names as the method's live query selects.
C8_SameColumns ==
    (ret.op \in MetricMethods /\ ret.src = "mock") =>
        Range(ret.table.columns) = Range(QueryColumns(ret.op))

\* C9: in degraded mode two calls to the same metric method return tables
\* with the same row count and the same values, whatever was called in
\* between and whatever the generator state before the call.
C9_Deterministic ==
    (ret.op \in MetricMethods /\ ret.src = "mock" /\ watch.op = ret.op) =>
        /\ NRows(ret.table) = NRows(watch.table)
        /\ ret.table = watch.table

\* C10: with a store unreachable from construction onwards get_total_revenue
\* returns one row, one column total_revenue, value 15750000.00, and a second
\* call returns the same.
C10_UnreachableTotalRevenue ==
    (~hist.everConnected /\ ret.op = "get_total_revenue") =>
        /\ ~ret.raised
        /\ ret.table.columns = <<"total_revenue">>
        /\ NRows(ret.table) = 1
        /\ ret.table.data["total_revenue"] = <<15750000>>
        /\ watch.op = "get_total_revenue" => watch.table = ret.table

\* the second of two get_total_revenue calls on a store never reached
C10_Witness ==
    /\ ~hist.everConnected
    /\ ret.op = "get_total_revenue"
    /\ watch.op = "get_total_revenue"
    /\ ~ret.remembered

\* C11: when the live query of a metric method succeeds with zero rows, the
\* method returns exactly that empty table, does not raise and does not
\* degrade, and no dashboard section that consumes the table raises on it
C11_EmptyLiveResult ==
    (/\ ret.op \in MetricMethods
     /\ ~ret.mockAtEntry
     /\ ret.store.queryOk
     /\ NRows(ret.store.table) = 0)
        => /\ ~ret.raised
           /\ ret.src = "live"
           /\ ret.table = ret.store.table
           /\ ~ret.mockAtExit
           /\ ~self.use_mock
           /\ \A n \in ConsumersOf(ret.op) :
                  LET view == RenderSection(Sections[n], ret.table)
                  IN  ~view.raised /\ view.shown = Sections[n].onEmpty

\* an empty live total has been returned to the Executive Summary
C11_Witness ==
    /\ ret.op = "get_total_revenue"
    /\ ret.src = "live"
    /\ ret.store.queryOk
    /\ NRows(ret.table) = 0
    /\ Len(ret.table.columns) > 0
    /\ RenderSection(Sections["ExecTotalRevenue"], ret.table).shown = "N/A"

\* the settings read from the environment by the constructor
Settings(s) ==
    [host |-> s.host, port |-> s.port, database |-> s.database,
     username |-> s.username, password |-> s.password]

\* C12 as stated: no metric method and no execute_query call changes a field
\* other than use_mock: the five settings and the connection handle stay
C12_Original ==
    [][ret'.op \in MetricMethods \cup {"execute_query"}
          => /\ Settings(self') = Settings(self)
             /\ self'.connection = self.connection]_vars

\* C12, amended: no call changes the five settings; a metric method leaves
\* the connection handle alone; execute_query leaves it alone unless it was
\* None, in which case the one connect it makes may set it
C12_Amended ==
    [][/\ Settings(self') = Settings(self)
       /\ ret'.op \in MetricMethods => self'.connection = self.connection
       /\ ret'.op = "execute_query"
             => \/ self'.connection = self.connection
                \/ /\ self.connection = NoConnection
                   /\ ret'.connects = 1
                   /\ ret'.connAtEntry = NoConnection]_vars

\* execute_query has been called on an instance without a handle and has
\* stored the handle its connect returned; the settings are as constructed
C12_Witness ==
    /\ ret.op = "execute_query"
    /\ ret.connAtEntry = NoConnection
    /\ self.connection # NoConnection
    /\ self.username = "test_user"
    /\ self.host = "52.211.123.34"

\* a credential the environment does not give, or gives empty
CredentialsMissing(s) ==
    s.username \in {None, ""} \/ s.password \in {None, ""}

\* C13: constructing DB2Connector with DB_USERNAME or DB_PASSWORD missing or
\* empty raises ValueError: no instance exists that was built without them
C13_MissingCredentialsRaise ==
    CredentialsMissing(self) => hist.ctorRaised

\* C14: test_connection of db2_connector.DB2Connector never raises; it
\* returns True when the connect and the probe both succeed, and then leaves
\* use_mock as it was; it returns False and leaves use_mock True exactly
\* when one of the two steps raised
C14_TestConnection ==
    /\ ret.op = "test_connection"
          => /\ ~ret.raised
             /\ ret.value <=> (ret.steps = "ok")
             /\ ret.steps = "ok" => (ret.mockAtExit <=> ret.mockAtEntry)
             /\ ret.steps # "ok" => ret.mockAtExit
    /\ ret.op = "__init__"
          => /\ ~ret.raised
             /\ ret.mockAtExit <=> (ret.steps # "ok")

\* a test whose connect succeeded and whose probe raised has returned False
\* on a connector that was not degraded before
C14_Witness ==
    /\ ret.op = "test_connection"
    /\ ret.steps = "probe raised"
    /\ ~ret.mockAtEntry
    /\ ~ret.value
    /\ self.use_mock

\* C15: a metric method called on a connector that is not degraded, whose
\* live query succeeds, returns exactly the table the store produced and
\* leaves the connector not degraded
C15_LiveResultReturned ==
    (/\ ret.op \in MetricMethods
     /\ ~ret.mockAtEntry
     /\ ret.store.queryOk)
        => /\ ~ret.raised
           /\ ret.src = "live"
           /\ ret.table = ret.store.table
           /\ ret.readSql = 1
           /\ ~ret.mockAtExit
           /\ ~self.use_mock

\* a live table with a row has been returned by a metric method
C15_Witness ==
    /\ ret.op = "get_revenue_by_route"
    /\ ~ret.mockAtEntry
    /\ ret.store.queryOk
    /\ NRows(ret.store.table) = 1
    /\ ret.table = ret.store.table

\* C16: every execute_query call, degraded or not, makes exactly one
\* pd.read_sql call and returns a table without raising: the table the store
\* produced when the query ran and succeeded, an empty table otherwise;
\* the constructor makes no pd.read_sql call
C16_ExecuteQueryOnce ==
    /\ ret.op = "execute_query"
          => /\ ~ret.raised
             /\ ret.readSql = 1
             /\ (self.connection # NoConnection /\ ret.store.queryOk)
                   => (ret.src = "live" /\ ret.table = ret.store.table)
             /\ (self.connection = NoConnection \/ ~ret.store.queryOk)
                   => (ret.src = "empty" /\ ret.table = EmptyFrame)
    /\ ret.op = "__init__" => ret.readSql = 0

\* execute_query has issued its query on a degraded connector and returned
\* the store's table
C16_Witness ==
    /\ ret.op = "execute_query"
    /\ ret.mockAtEntry
    /\ ret.readSql = 1
    /\ ret.src = "live"
    /\ NRows(ret.table) = 1

\* the five settings the docstring of from_env names are all set to
\* non-empty values, the port to a number
DocumentedPresent(env) ==
    /\ \A n \in DocumentedNames : env[n] # None /\ env[n] # ""
    /\ IsDigits(env["DB2_PORT"])

\* C17: DB2Config.from_env succeeds when DB2_HOST, DB2_PORT, DB2_DATABASE,
\* DB2_USERNAME and DB2_PASSWORD are set to non-empty values with a numeric
\* port, and raises ValueError when one of them is missing or empty
C17_FromEnvDocumentedNames ==
    (tool.phase # "off" /\ tool.last.op = "__init__")
        => (tool.last.raised <=> ~DocumentedPresent(tool.last.env))

\* the rows of the stored table a where argument lets through
RowsWanted(where, stored) ==
    IF TruthyText(where) THEN SelectSeq(stored, LAMBDA row : Matches(where, row))
    ELSE stored

\* C18: read_table with a limit that is not None, 0 included, ends its
\* query with FETCH FIRST <limit> ROWS ONLY and returns at most limit rows;
\* with limit None the query has no FETCH FIRST clause and every wanted row
\* is returned; the query has a WHERE clause exactly when where is neither
\* None nor empty, and that clause stands before the FETCH FIRST clause
C18_ReadTableLimit ==
    (tool.phase = "ready" /\ tool.last.op = "read_table")
        => LET call == tool.last
               w == Find(" WHERE ", call.sql)
               f == Find(" FETCH FIRST ", call.sql)
           IN  /\ call.limit # <<>>
                     => /\ EndsWith(call.sql, " FETCH FIRST "
                                        \o ToString(call.limit[1]) \o " ROWS ONLY")
                        /\ ~call.raised => Len(call.rows) <= call.limit[1]
               /\ call.limit = <<>>
                     => /\ f = 0
                        /\ ~call.raised
                              => call.rows = RowsWanted(call.where, call.stored)
               /\ (w > 0) <=> TruthyText(call.where)
               /\ TruthyText(call.where)
                     => /\ SubSeq(call.sql, w, w + Len(" WHERE " \o call.where) - 1)
                              = " WHERE " \o call.where
                        /\ f > 0 => w < f

\* read_table with limit 0 and a where clause, on a table of three rows two
\* of which match, has returned no row
C18_Witness ==
    /\ tool.phase = "ready"
    /\ tool.last.op = "read_table"
    /\ tool.last.limit = <<0>>
    /\ tool.last.where = "ID > 1"
    /\ Len(tool.last.stored) = 3
    /\ ~tool.last.raised
    /\ tool.last.rows = <<>>
    /\ tool.last.sql
          = "SELECT * FROM IEMASTER.FLIGHTS WHERE ID > 1 FETCH FIRST 0 ROWS ONLY"

\* C19: an export that returns, without a chunksize (None or 0), has written
\* exactly the file parquet_path and returns parquet_path; with a positive
\* chunksize it has written one file per chunk of the result, named
\* <base>_part000, <base>_part001, ... in chunk order without gaps, never
\* parquet_path itself, and returns <base>_part*.parquet, also when the
\* result has no chunk and no file is written
C19_ParquetFiles ==
    (/\ tool.phase = "ready"
     /\ tool.last.op \in {"save_query_as_parquet", "save_table_as_parquet"})
        => LET call == tool.last
               base == splitext(call.parquet_path)[1]
           IN  IF ~TruthyInt(call.chunksize)
               THEN ~call.raised
                       => /\ call.written = <<call.parquet_path>>
                          /\ call.returned = call.parquet_path
               ELSE /\ \A i \in 1..Len(call.written) :
                          /\ call.written[i]
                                = base \o "_part" \o Pad3(i - 1) \o ".parquet"
                          /\ call.written[i] # call.parquet_path
                    /\ ~call.raised
                          => /\ Len(call.written) = call.chunks
                             /\ call.returned = base \o "_part*.parquet"

\* a chunked export of a result of two chunks has written two parts
C19_Witness ==
    /\ tool.phase = "ready"
    /\ tool.last.op = "save_query_as_parquet"
    /\ tool.last.parquet_path = "out/flights.parquet"
    /\ TruthyInt(tool.last.chunksize)
    /\ ~tool.last.raised
    /\ tool.last.chunks = 2
    /\ tool.last.written
          = <<"out/flights_part000.parquet", "out/flights_part001.parquet">>
    /\ tool.last.returned = "out/flights_part*.parquet"

\* C20: every section a page renders on a table of the connector does not
\* raise; on an empty table it shows a "no data" placeholder, and on a table
\* with rows every column it selects is a column of that table
C20_PagesRender ==
    (dash.phase # "off" /\ dash.view.fetched)
        => /\ ~dash.view.raised
           /\ empty(dash.view.table) => dash.view.shown \in {"N/A", "info"}
           /\ ~empty(dash.view.table)
                 => dash.view.selected \subseteq Range(dash.view.table.columns)

\* C24: after the constructor a connector that is not degraded holds a
\* connection; no metric method call calls the driver's connect; and a call
\* that connects through _get_connection is an execute_query call made
\* while the handle was None
C24_NonDegradedHoldsConnection ==
    /\ ~self.use_mock => self.connection # NoConnection
    /\ ret.op \in MetricMethods => ret.connects = 0
    /\ (ret.getConn > 0 /\ ret.connects > 0)
          => (ret.op = "execute_query" /\ ret.connAtEntry = NoConnection)

\* execute_query has opened a connection on a connector whose handle was None
C24_Witness ==
    /\ ret.op = "execute_query"
    /\ ret.connAtEntry = NoConnection
    /\ ret.getConn = 1
    /\ ret.connects = 1
    /\ self.connection # NoConnection
    /\ self.use_mock

\* C25: an execute_query call that fails returns an empty table, no sample
\* table, and leaves use_mock True; use_mock stays True from then on, and
\* every metric method entered with use_mock True returns its sample table
\* without issuing its query
C25_QueryFailureDegrades ==
    [][/\ (ret'.op = "execute_query" /\ ret'.failed)
             => /\ ~ret'.raised
                /\ ret'.src = "empty"
                /\ ret'.table = EmptyFrame
                /\ self'.use_mock
       /\ self.use_mock
             => /\ self'.use_mock
                /\ (ret'.op \in MetricMethods /\ ret'.mockAtEntry)
                      => (ret'.src = "mock" /\ ret'.readSql = 0)]_vars

\* a query rejected by a reachable store has degraded a connector that held
\* a connection and was not degraded
C25_Witness ==
    /\ ret.op = "execute_query"
    /\ ~ret.mockAtEntry
    /\ ret.connAtEntry # NoConnection
    /\ ret.connects = 0
    /\ ret.failed
    /\ ret.src = "empty"
    /\ self.use_mock

\* C26: a test_connection call that returns True leaves use_mock as it was
\* and replaces the connection handle by a new one; a metric method called
\* on a degraded connector returns its sample table and leaves it degraded
C26_SuccessKeepsDegraded ==
    /\ (ret.op = "test_connection" /\ ret.value)
          => /\ ret.mockAtExit <=> ret.mockAtEntry
             /\ self.connection # NoConnection
             /\ self.connection # ret.connAtEntry
    /\ (ret.op \in MetricMethods /\ ret.mockAtEntry)
          => (ret.src = "mock" /\ ret.mockAtExit)

\* test_connection has returned True on a degraded connector that held a
\* connection, and the connector is still degraded
C26_Witness ==
    /\ ret.op = "test_connection"
    /\ ret.value
    /\ ret.mockAtEntry
    /\ ret.connAtEntry # NoConnection
    /\ self.connection # ret.connAtEntry
    /\ self.use_mock

\* the CASE expression of the maintenance query
StatusOf(takeoffs) ==
    IF takeoffs >= 900 THEN "CRITICAL"
    ELSE IF takeoffs >= 700 THEN "HIGH"
    ELSE IF takeoffs >= 500 THEN "MEDIUM" ELSE "LOW"

\* C27: every row of the sample table get_maintenance_alerts returns has at
\* least 500 MAINTENANCE_TAKEOFFS and the maintenance_status the thresholds
\* of the live query give it
C27_MaintenanceThresholds ==
    (ret.op = "get_maintenance_alerts" /\ ret.src = "mock")
        => \A i \in 1..NRows(ret.table) :
               LET takeoffs == ret.table.data["MAINTENANCE_TAKEOFFS"][i]
               IN  /\ takeoffs >= 500
                   /\ ret.table.data["maintenance_status"][i] = StatusOf(takeoffs)

\* the ORDER BY of the live queries that have one and a hardcoded sample table
OrderBy(m) ==
    CASE m = "get_revenue_by_route" -> [key |-> "total_revenue", descending |-> TRUE]
      [] m = "get_fuel_efficiency" -> [key |-> "avg_fuel_consumption", descending |-> FALSE]
      [] m = "get_maintenance_alerts" -> [key |-> "MAINTENANCE_TAKEOFFS", descending |-> TRUE]
      [] m = "get_hr_metrics" -> [key |-> "total_salary", descending |-> TRUE]

\* the rows of tbl are in the order of the column key
SortedBy(tbl, key, descending) ==
    \A i \in 1..(NRows(tbl) - 1) :
        IF descending THEN tbl.data[key][i] >= tbl.data[key][i + 1]
        ELSE tbl.data[key][i] <= tbl.data[key][i + 1]

\* C28: the sample tables of revenue by route, fuel efficiency, maintenance
\* alerts and HR metrics are sorted by the key and in the direction of the
\* ORDER BY of their live query
C28_SamplesSortedLikeQueries ==
    (/\ ret.op \in {"get_revenue_by_route", "get_fuel_efficiency",
                    "get_maintenance_alerts", "get_hr_metrics"}
     /\ ret.src = "mock")
        => SortedBy(ret.table, OrderBy(ret.op).key, OrderBy(ret.op).descending)

\* C29: _normalize_columns, given a table of pairwise distinct column names,
\* returns a table of as many columns whose names are pairwise distinct
C29_NamesStayUnique ==
    (local.phase = "ready" /\ local.last.op = "_normalize_columns")
        => LET given == local.last.df.columns
               got == local.last.returned.columns
           IN  (\A i, j \in DOMAIN given : given[i] = given[j] => i = j)
                   => /\ Len(got) = Len(given)
                      /\ \A i, j \in DOMAIN got : got[i] = got[j] => i = j

\* C30: _normalize_columns applied to the table it returned returns that
\* table: the second call renames no column
C30_NormalizeIdempotent ==
    (local.phase = "ready" /\ local.last.op = "_normalize_columns")
        => /\ local.last.again.columns = local.last.returned.columns
           /\ local.last.again = local.last.returned

\* a first call has renamed two columns, and the second call none
C30_Witness ==
    /\ local.phase = "ready"
    /\ local.last.op = "_normalize_columns"
    /\ local.last.df.columns = <<"amount", "id", "name">>
    /\ local.last.returned.columns = <<"total_revenue", "passenger_id", "name">>
    /\ local.last.again.columns = <<"total_revenue", "passenger_id", "name">>

\* C21: a metric method of LocalConnector does not raise and returns a
\* table; get_load_factor returns an empty table when no readable file of
\* TICKETS has a column named flight_id
C21_LocalMethodsNeverRaise ==
    (local.phase = "ready" /\ local.last.op \in LocalMethods)
        => /\ ~local.last.out.raised
           /\ local.last.out.src \in {"empty", "built", "read"}
           /\ (/\ local.last.op = "get_load_factor"
               /\ \A path \in DOMAIN local.fs.files \cap Range(TicketsPaths) :
                      local.fs.files[path].readable
                          => "flight_id" \notin Range(local.fs.files[path].frame.columns))
                 => local.last.out.src = "empty"

\* C22: the session holds a connector once the script has run; it is a
\* LocalConnector when USE_LOCAL is unset or spells 1, true or yes, else the
\* imported DB2Connector when the import and the constructor succeeded and a
\* LocalConnector when either failed; a later run of the script keeps it
C22_ConnectorOncePerSession ==
    [][/\ dash'.phase \in {"rendering", "done", "failed"}
             => dash'.kind \in {"local", "sqlalchemy"}
       /\ dash'.kind # "none"
             => dash'.kind = IF dash'.env \in {None, "1", "TRUE", "Yes"} THEN "local"
                             ELSE IF dash'.importOk /\ dash'.constructOk
                             THEN "sqlalchemy"
                             ELSE "local"
       /\ dash.kind # "none" => dash'.kind = dash.kind]_vars

\* with USE_LOCAL=0 the session took the imported DB2Connector and still
\* holds it after the user went to another page
C22_Witness ==
    /\ dash.phase = "failed"
    /\ dash.env = "0"
    /\ dash.importOk
    /\ dash.constructOk
    /\ dash.kind = "sqlalchemy"
    /\ dash.page = "HRAnalytics"

\* the folder of each table under datasets
FolderOf ==
    [TICKETS |-> "datasets/tickets", FLIGHTS |-> "datasets/flights",
     AIRPLANES |-> "datasets/airplanes", PASSENGERS |-> "datasets/passengers",
     ROUTES |-> "datasets/routes", EMPLOYEE |-> "datasets/employee"]

\* the readable files of the table of the last _read_table call, in the
\* order of their names: those of its folder when the folder exists, else
\* the file named like the table
ReadableOfLastCall ==
    LET folder == FolderOf[local.last.table]
        exists(path) == path \in DOMAIN local.fs.files
        inFolder == SelectSeq(<<folder \o "/part0.parquet", folder \o "/part1.parquet">>,
                              exists)
        alone == SelectSeq(<<folder \o ".parquet">>, exists)
    IN  SelectSeq(IF folder \in local.fs.dirs THEN inFolder ELSE alone,
                  LAMBDA path : local.fs.files[path].readable)

\* the rows of a table, each named by the cell of it that a file gave
RowsOf(df) ==
    [r \in 1..FrameRows(df) |->
        CHOOSE cell \in {df.cells[i][r] : i \in DOMAIN df.columns} :
            \A i \in DOMAIN df.columns : df.cells[i][r] \in {cell, NaN}]

\* the rows of the given files of the last call, one file after the other
RECURSIVE RowsOfFiles(_)
RowsOfFiles(paths) ==
    IF Len(paths) = 0 THEN <<>>
    ELSE RowsOfFiles(SubSeq(paths, 1, Len(paths) - 1))
             \o RowsOf(local.fs.files[paths[Len(paths)]].frame)

\* C23 as stated: _read_table does not raise, returns the rows of the
\* readable files in the order of the file names, and returns an empty table
\* exactly when there is no readable file
C23_ReadTableAsStated ==
    (local.phase = "ready" /\ local.last.op = "_read_table")
        => /\ ~local.last.raised
           /\ RowsOf(local.last.returned) = RowsOfFiles(ReadableOfLastCall)
           /\ FrameEmpty(local.last.returned) <=> Len(ReadableOfLastCall) = 0

\* C23: _read_table does not raise and returns the rows of the readable
\* parquet files of datasets/<table lower-cased>/ in the order of the file
\* names when that folder exists, else those of
\* datasets/<table lower-cased>.parquet when it is readable; its columns are
\* the columns of these files, renamed at most; it is empty exactly when
\* these files have no row
C23_ReadTable ==
    (local.phase = "ready" /\ local.last.op = "_read_table")
        => LET given == RowsOfFiles(ReadableOfLastCall)
               names == UNION {Range(local.fs.files[ReadableOfLastCall[i]].frame.columns) :
                                  i \in DOMAIN ReadableOfLastCall}
           IN  /\ ~local.last.raised
               /\ RowsOf(local.last.returned) = given
               /\ FrameRows(local.last.returned) = Len(given)
               /\ Len(local.last.returned.columns) = Cardinality(names)
               /\ FrameEmpty(local.last.returned) <=> Len(given) = 0

\* a folder of a readable file of one row and a readable file of two rows,
\* beside an unreadable file named like the table: the three rows are
\* returned in the order of the file names
C23_Witness ==
    /\ local.phase = "ready"
    /\ local.last.op = "_read_table"
    /\ local.last.table = "TICKETS"
    /\ "datasets/tickets" \in local.fs.dirs
    /\ DOMAIN local.fs.files
          = {"datasets/tickets/part0.parquet", "datasets/tickets/part1.parquet",
             "datasets/tickets.parquet"}
    /\ ~local.fs.files["datasets/tickets.parquet"].readable
    /\ RowsOf(local.last.returned) = <<11, 21, 22>>
    /\ local.last.returned.columns = <<"FLIGHT_ID", "total_revenue", "flight_id", "capacity">>

====
